---- MODULE Spec2Model ----
(***************************************************************************)
(* URL shortener (src/main.go, the PostgreSQL + Redis build, lines 437 on):*)
(* the urls/analytics store, the Redis read-through cache, the analytics   *)
(* ingestion pipeline (RecordAnalytics -> analyticsChannel ->              *)
(* analyticsWorker -> processBatch) and Close.                             *)
(*                                                                         *)
(* The store and the cache are external services: whether one of their    *)
(* calls succeeds is an input of the action that makes the call.          *)
(***************************************************************************)
EXTENDS Integers, Sequences, FiniteSets, TLC

(***************************************************************************)
(* Bounds.  QueueCap, BatchSize and MaxAttempts stand for the program's    *)
(* 1000 (main.go:520), 50 (main.go:583,589) and 10 (main.go:658), scaled   *)
(* down so that the full/partial cases are all reached.                    *)
(***************************************************************************)
QueueCap == 3

BatchSize == 3

MaxAttempts == 2

\* number of RecordAnalytics calls explored
MaxRecords == 4

\* number of zero-value receives from the closed channel explored
MaxPhantom == 1

\* number of ShortenURL calls explored
MaxShorten == 2

\* number of failed store calls inside flushes explored (a call that cannot
\* succeed, on a closed pool or against the foreign key, is not counted)
MaxFaults == 1

\* number of goroutines that run ShortenURL concurrently
NumProcs == 2

\* number of redirects explored where the other handlers run as well
MaxRedirects == 2

(***************************************************************************)
(* Program constants.                                                      *)
(***************************************************************************)
StartLength == 6

ExtraLengths == 2

StatusOK == 200

StatusMovedPermanently == 301

StatusBadRequest == 400

StatusNotFound == 404

StatusRequestTimeout == 408

StatusInternalServerError == 500

\* GetAnalytics returns at most this many rows
AnalyticsLimit == 1000

\* listHandler's default and largest limit
DefaultLimit == 50

MaxLimit == 100

(***************************************************************************)
(* Value domains.                                                          *)
(***************************************************************************)
\* what generateShortCode(length) can return, per length
CodesOfLen(l) ==
  IF l = 6 THEN {"a6", "b6"} ELSE IF l = 7 THEN {"a7"} ELSE IF l = 8 THEN {"a8"} ELSE {}

Lengths == StartLength .. (StartLength + ExtraLengths)

AllCodes == UNION {CodesOfLen(l) : l \in Lengths}

\* short codes a client can ask for: every code that can exist, and one that cannot
ReqCodes == AllCodes \cup {"zz"}

ValidURLs == {"http://x", "http://y"}

\* "not-a-url" parses with neither scheme nor host, "//x" with no scheme, "mailto:x"
\* with no host; "" is the missing field
InputURLs == ValidURLs \cup {"not-a-url", "//x", "mailto:x", ""}

NoCode == "-"

\* the zero value of AnalyticsEvent, received from a closed, drained channel
ZeroEvent == [code |-> "", ts |-> 0]

NoEntry == [kind |-> "none"]

\* a cache value that json.Unmarshal rejects
BadEntry == [kind |-> "bad"]

\* no row: the zero value of URL
NoRow == [id |-> 0, short_code |-> NoCode, long_url |-> "", clicks |-> 0,
          created_at |-> 0]

\* the goroutines that serve concurrent shorten requests
Procs == 1 .. NumProcs

\* a goroutine with no ShortenURL call in flight
NoCall == [pc |-> "idle", url |-> "", code |-> NoCode, row |-> NoRow, err |-> "none",
           inserted |-> FALSE, ctx |-> "live", lookup |-> "none"]

\* seeded fault: NewURLShortener starts a second worker
WorkersStartedTwice == {1, 2}

\* the analyticsWorker goroutines NewURLShortener starts: one `go` statement
WorkersStarted == {1}

\* a worker at its select, with an empty batch
IdleWorker == [pc |-> "select", batch |-> <<>>, trigger |-> "none"]

NoResp == [op |-> "none", arg |-> "", status |-> 0, body |-> "", rec |-> "none",
           clicks |-> 0, nrows |-> 0]

VARIABLES
  urls,             \* table urls: rows in insertion order, id = position
  analytics,        \* table analytics: rows in insertion order
  cache,            \* redis: short code -> entry
  analyticsChannel, \* us.analyticsChannel: buffered events, head first
  closed,           \* the channel has been closed
  batch,            \* analyticsWorker's local batch
  wg,               \* us.wg's counter
  closePc,          \* position of the Close call
  redisClosed,      \* redisClient.Close() has run
  dbClosed,         \* db.Close() has run
  clock,            \* number of RecordAnalytics calls so far (time.Now() of the next event)
  nshorten,         \* number of ShortenURL calls so far
  phantoms,         \* number of zero-value receives so far
  faults,           \* number of store calls that failed inside flushes so far
  resp,             \* outcome of the last request
  accepted,         \* history: the events enqueued, in enqueue order
  dropped,          \* history: the events dropped, in call order
  flushes,          \* history: the processBatch calls, in call order, each with its
                    \* events, its trigger and its outcome
  late,             \* history: RecordAnalytics was called after the first flush
  pendingAtClose,   \* history: the events queued or batched when Close began
  sh,               \* the ShortenURL calls in flight: per goroutine, its position
                    \* and its locals
  wk                \* the analyticsWorker goroutines taken statement by statement:
                    \* per goroutine, its position, its batch and the trigger of
                    \* the processBatch call it is in

vars == <<urls, analytics, cache, analyticsChannel, closed, batch, wg,
          closePc, redisClosed, dbClosed, clock, nshorten, phantoms, faults, resp,
          accepted, dropped, flushes, late, pendingAtClose, sh, wk>>

storeVars == <<urls, analytics>>
pipeVars == <<analyticsChannel, batch, phantoms, faults, flushes>>
closeVars == <<closed, wg, closePc, redisClosed, dbClosed, pendingAtClose>>
recVars == <<clock, accepted, dropped, late>>

(***************************************************************************)
(* Sequence helpers.                                                       *)
(***************************************************************************)
Range(s) == {s[i] : i \in 1 .. Len(s)}

RECURSIVE Concat(_)
Concat(ss) == IF ss = <<>> THEN <<>> ELSE Head(ss) \o Concat(Tail(ss))

Min(a, b) == IF a <= b THEN a ELSE b

Count(s, P(_)) == Cardinality({i \in 1 .. Len(s) : P(s[i])})

(***************************************************************************)
(* The store.                                                              *)
(***************************************************************************)
RowsByCode(u, c) == {i \in 1 .. Len(u) : u[i].short_code = c}

RowsByLongURL(u, l) == {i \in 1 .. Len(u) : u[i].long_url = l}

\* SELECT ... FROM urls WHERE long_url = $1, scanned by QueryRow: the first row
FirstRow(u, S) == u[CHOOSE i \in S : \A j \in S : i <= j]

Clicks(u, c) == IF RowsByCode(u, c) = {} THEN 0 ELSE FirstRow(u, RowsByCode(u, c)).clicks

\* seeded fault: the UPDATE adds two
IncrementClicksTwice(u, c) ==
  [i \in 1 .. Len(u) |->
     IF u[i].short_code = c THEN [u[i] EXCEPT !.clicks = @ + 2] ELSE u[i]]

\* seeded fault: the UPDATE also refreshes created_at
IncrementClicksStampsRow(u, c) ==
  [i \in 1 .. Len(u) |->
     IF u[i].short_code = c
     THEN [u[i] EXCEPT !.clicks = @ + 1, !.created_at = Len(u) + 1] ELSE u[i]]

\* UPDATE urls SET clicks = clicks + 1 WHERE short_code = $1
IncrementClicks(u, c) ==
  [i \in 1 .. Len(u) |-> IF u[i].short_code = c
                         THEN [u[i] EXCEPT !.clicks = @ + 1] ELSE u[i]]

\* INSERT INTO analytics ...: refused unless urls has the short code (FOREIGN KEY)
ForeignKeyOK(u, c) == RowsByCode(u, c) # {}

(***************************************************************************)
(* The cache.  An entry is absent, a marshalled URL record, or bytes that  *)
(* json.Unmarshal rejects.                                                 *)
(***************************************************************************)
Entry(row) == [kind |-> "rec", row |-> row]

\* seeded fault: the Set is never made
CacheSetNever(ch, key, row, ok) == ch

\* redisClient.Set(ctx, key, json, 24h); its error is ignored by every caller
CacheSet(ch, key, row, ok) == IF ok THEN [ch EXCEPT ![key] = Entry(row)] ELSE ch

\* outcomes a cache call can have: none succeeds once the client is closed;
\* "timeout" is the request's deadline passing during the call
CacheOutcomes == IF redisClosed THEN {"err"} ELSE {"ok", "err", "timeout"}

\* outcomes a store call can have: none succeeds once the pool is closed
StoreOutcomes == IF dbClosed THEN {"err"} ELSE {"ok", "err", "timeout"}

(***************************************************************************)
(* RecordAnalytics: select { case ch <- event: default: }.  A send on a    *)
(* closed channel panics, also inside a select with a default case.        *)
(***************************************************************************)
\* seeded fault: the capacity test is off by one, so a full queue still takes the event
RecordAnalyticsOverfill(q, isClosed, event) ==
  IF isClosed THEN [queue |-> q, outcome |-> "panic"]
  ELSE IF Len(q) <= QueueCap THEN [queue |-> Append(q, event), outcome |-> "accepted"]
  ELSE [queue |-> q, outcome |-> "dropped"]

\* seeded fault: a full queue makes room by discarding its oldest event
RecordAnalyticsEvictOldest(q, isClosed, event) ==
  IF isClosed THEN [queue |-> q, outcome |-> "panic"]
  ELSE IF Len(q) < QueueCap THEN [queue |-> Append(q, event), outcome |-> "accepted"]
  ELSE [queue |-> Append(Tail(q), event), outcome |-> "accepted"]

RecordAnalytics(q, isClosed, event) ==
  IF isClosed THEN [queue |-> q, outcome |-> "panic"]
  ELSE IF Len(q) < QueueCap THEN [queue |-> Append(q, event), outcome |-> "accepted"]
  ELSE [queue |-> q, outcome |-> "dropped"]

\* a call RecordAnalytics(shortCode, ipAddress, userAgent) at time clock + 1
RecordCall(c) ==
  /\ clock < MaxRecords
  /\ LET event == [code |-> c, ts |-> clock + 1]
         r == RecordAnalytics(analyticsChannel, closed, event)
     IN /\ analyticsChannel' = r.queue
        /\ clock' = clock + 1
        /\ accepted' = IF r.outcome = "accepted" THEN Append(accepted, event) ELSE accepted
        /\ dropped' = IF r.outcome = "dropped" THEN Append(dropped, event) ELSE dropped
        /\ late' = (late \/ flushes # <<>>)
  /\ UNCHANGED <<sh, wk>>
  /\ UNCHANGED <<urls, analytics, cache, batch, phantoms, faults, flushes,
                 resp, nshorten>>
  /\ UNCHANGED closeVars

\* the calls of RecordAnalytics that panicked instead of returning
Panicked == clock - Len(accepted) - Len(dropped)

(***************************************************************************)
(* processBatch.  tx says how far the transaction got: "begin", "prepare"  *)
(* and "commit" name the call that failed, "ok" is a commit.  fails[i]     *)
(* says which statement of event i failed: "upd", "ins" or "ok".           *)
(***************************************************************************)
TxOutcomes == IF dbClosed THEN {"begin"} ELSE {"begin", "prepare", "commit", "ok"}

\* the statement outcomes the store can give event e
StmtOutcomes(u, e) == IF ForeignKeyOK(u, e.code) THEN {"ok", "upd", "ins"} ELSE {"upd", "ins"}

\* the failures of a flush that the store could have spared
FaultsOf(u, events, tx, fails) ==
  IF tx # "ok" THEN (IF dbClosed THEN 0 ELSE 1)
  ELSE Cardinality({i \in 1 .. Len(events) :
                      \/ fails[i] = "upd"
                      \/ fails[i] = "ins" /\ ForeignKeyOK(u, events[i].code)})

FailsFor(u, events) ==
  {f \in [1 .. Len(events) -> {"ok", "upd", "ins"}] :
     \A i \in 1 .. Len(events) : f[i] \in StmtOutcomes(u, events[i])}

\* seeded fault: a failed UPDATE does not skip the event's INSERT
ApplyEventNoContinue(st, e, f) ==
  [urls |-> IF f = "upd" THEN st.urls ELSE IncrementClicks(st.urls, e.code),
   analytics |-> IF f = "ins" THEN st.analytics
                 ELSE Append(st.analytics, [short_code |-> e.code, ts |-> e.ts])]

\* one iteration of the loop over events (main.go:628-637)
ApplyEvent(st, e, f) ==
  IF f = "upd" THEN st
  ELSE [urls |-> IncrementClicks(st.urls, e.code),
        analytics |-> IF f = "ins" THEN st.analytics
                      ELSE Append(st.analytics, [short_code |-> e.code, ts |-> e.ts])]

RECURSIVE ApplyEvents(_, _, _)
ApplyEvents(st, events, fails) ==
  IF events = <<>> THEN st
  ELSE ApplyEvents(ApplyEvent(st, Head(events), Head(fails)), Tail(events), Tail(fails))

\* seeded fault: a failed commit is not rolled back
processBatchNoRollback(u, a, events, tx, fails) ==
  IF events = <<>> \/ tx \in {"begin", "prepare"} THEN [urls |-> u, analytics |-> a]
  ELSE ApplyEvents([urls |-> u, analytics |-> a], events, fails)

\* seeded fault: a failed statement returns from processBatch, and the deferred
\* Rollback undoes the batch
processBatchAbortOnFailure(u, a, events, tx, fails) ==
  IF events = <<>> \/ tx # "ok" \/ \E i \in 1 .. Len(fails) : fails[i] # "ok"
  THEN [urls |-> u, analytics |-> a]
  ELSE ApplyEvents([urls |-> u, analytics |-> a], events, fails)

Reverse(s) == [i \in 1 .. Len(s) |-> s[Len(s) + 1 - i]]

\* seeded fault: the loop runs over the batch from its newest event
processBatchNewestFirst(u, a, events, tx, fails) ==
  IF events = <<>> \/ tx # "ok" THEN [urls |-> u, analytics |-> a]
  ELSE ApplyEvents([urls |-> u, analytics |-> a], Reverse(events), Reverse(fails))

processBatch(u, a, events, tx, fails) ==
  IF events = <<>> \/ tx # "ok" THEN [urls |-> u, analytics |-> a]
  ELSE ApplyEvents([urls |-> u, analytics |-> a], events, fails)

\* the statements the loop over events issues, in the order it issues them:
\* for the i-th event its UPDATE and, unless that failed, its INSERT
RECURSIVE StatementsFrom(_, _, _)
StatementsFrom(i, events, fails) ==
  IF i > Len(events) THEN <<>>
  ELSE <<[kind |-> "upd", idx |-> i, ok |-> fails[i] # "upd"]>>
       \o (IF fails[i] = "upd" THEN <<>>
           ELSE <<[kind |-> "ins", idx |-> i, ok |-> fails[i] = "ok"]>>)
       \o StatementsFrom(i + 1, events, fails)

IssuedStatements(events, fails) == StatementsFrom(1, events, fails)

\* the store after statement s of the batch `events`, issued on st
ExecStatement(st, events, s) ==
  IF ~s.ok THEN st
  ELSE IF s.kind = "upd"
  THEN [st EXCEPT !.urls = IncrementClicks(st.urls, events[s.idx].code)]
  ELSE [st EXCEPT !.analytics =
          Append(st.analytics, [short_code |-> events[s.idx].code, ts |-> events[s.idx].ts])]

RECURSIVE ExecStatements(_, _, _)
ExecStatements(st, events, stmts) ==
  IF stmts = <<>> THEN st
  ELSE ExecStatements(ExecStatement(st, events, Head(stmts)), events, Tail(stmts))

\* seeded fault: the size test is > instead of >=
BatchFullOffByOne(b) == Len(b) > BatchSize

\* seeded fault: the size test fires one event early
BatchFullEarly(b) == Len(b) >= BatchSize - 1

\* len(batch) >= 50
BatchFull(b) == Len(b) >= BatchSize

\* seeded fault: the tick flushes only a batch of two or more
BatchPendingMoreThanOne(b) == Len(b) > 1

\* len(batch) > 0
BatchPending(b) == Len(b) > 0

\* the worker calls processBatch(b) and resets the batch
Flush(b, trigger) ==
  \E tx \in TxOutcomes :
    \E fails \in (IF tx = "ok" THEN FailsFor(urls, b) ELSE {[i \in 1 .. Len(b) |-> "ok"]}) :
      LET r == processBatch(urls, analytics, b, tx, fails)
      IN /\ faults + FaultsOf(urls, b, tx, fails) <= MaxFaults
         /\ faults' = faults + FaultsOf(urls, b, tx, fails)
         /\ urls' = r.urls
         /\ analytics' = r.analytics
         /\ flushes' = Append(flushes, [events |-> b, trigger |-> trigger,
                                        tx |-> tx, fails |-> fails])
         /\ batch' = <<>>

(***************************************************************************)
(* analyticsWorker: one iteration of its select loop.                      *)
(***************************************************************************)
\* case event := <-us.analyticsChannel (a closed, drained channel yields the zero value)
WorkerReceive ==
  /\ analyticsChannel # <<>> \/ (closed /\ phantoms < MaxPhantom)
  /\ LET fromQueue == analyticsChannel # <<>>
         event == IF fromQueue THEN Head(analyticsChannel) ELSE ZeroEvent
         b == Append(batch, event)
     IN /\ analyticsChannel' = IF fromQueue THEN Tail(analyticsChannel) ELSE <<>>
        /\ phantoms' = IF fromQueue THEN phantoms ELSE phantoms + 1
        /\ IF BatchFull(b)
           THEN Flush(b, "size")
           ELSE batch' = b /\ UNCHANGED <<urls, analytics, flushes, faults>>
  /\ UNCHANGED <<cache, resp, nshorten>>
  /\ UNCHANGED closeVars
  /\ UNCHANGED recVars
  /\ UNCHANGED <<sh, wk>>

\* case <-ticker.C: the 100 ms ticker has fired and the worker takes the tick
WorkerTick ==
  /\ IF BatchPending(batch)
     THEN Flush(batch, "timer")
     ELSE UNCHANGED <<urls, analytics, flushes, batch, faults>>
  /\ UNCHANGED <<cache, analyticsChannel, phantoms, resp, nshorten>>
  /\ UNCHANGED closeVars
  /\ UNCHANGED recVars
  /\ UNCHANGED <<sh, wk>>

(***************************************************************************)
(* analyticsWorker statement by statement: a call of processBatch takes    *)
(* several steps, and RecordAnalytics and the ticker run meanwhile.  wk[w] *)
(* holds worker w's position: "select" at its select, "begin" inside       *)
(* processBatch before db.Begin has answered, "tx" with the transaction    *)
(* open.  The statements and the Commit of one transaction take effect     *)
(* together, at the Commit.                                                *)
(***************************************************************************)
\* worker w is inside a call of processBatch
InProcessBatch(w) == wk[w].pc \in {"begin", "tx"}

\* worker w has a transaction open
InTransaction(w) == wk[w].pc = "tx"

\* case event := <-us.analyticsChannel, up to the call of processBatch
WorkerTakes(w) ==
  /\ wk[w].pc = "select"
  /\ analyticsChannel # <<>>
  /\ LET b == Append(wk[w].batch, Head(analyticsChannel))
     IN wk' = [wk EXCEPT ![w] = IF BatchFull(b)
                                THEN [pc |-> "begin", batch |-> b, trigger |-> "size"]
                                ELSE [pc |-> "select", batch |-> b, trigger |-> "none"]]
  /\ analyticsChannel' = Tail(analyticsChannel)
  /\ UNCHANGED <<urls, analytics, cache, batch, phantoms, faults, flushes, resp, nshorten>>
  /\ UNCHANGED closeVars
  /\ UNCHANGED recVars
  /\ UNCHANGED sh

\* case <-ticker.C with a pending batch, up to the call of processBatch
WorkerTicks(w) ==
  /\ wk[w].pc = "select"
  /\ BatchPending(wk[w].batch)
  /\ wk' = [wk EXCEPT ![w] = [pc |-> "begin", batch |-> wk[w].batch, trigger |-> "timer"]]
  /\ UNCHANGED <<urls, analytics, cache, analyticsChannel, batch, phantoms, faults,
                 flushes, resp, nshorten>>
  /\ UNCHANGED closeVars
  /\ UNCHANGED recVars
  /\ UNCHANGED sh

\* tx, err := us.db.Begin(): on an error processBatch returns and the worker
\* resets its batch
WorkerBegins(w) ==
  /\ wk[w].pc = "begin"
  /\ \/ /\ wk' = [wk EXCEPT ![w] = [wk[w] EXCEPT !.pc = "tx"]]
        /\ UNCHANGED <<faults, flushes>>
     \/ /\ faults < MaxFaults
        /\ faults' = faults + 1
        /\ flushes' = Append(flushes, [events |-> wk[w].batch, trigger |-> wk[w].trigger,
                                       tx |-> "begin",
                                       fails |-> [i \in 1 .. Len(wk[w].batch) |-> "ok"]])
        /\ wk' = [wk EXCEPT ![w] = IdleWorker]
  /\ UNCHANGED <<urls, analytics, cache, analyticsChannel, batch, phantoms, resp, nshorten>>
  /\ UNCHANGED closeVars
  /\ UNCHANGED recVars
  /\ UNCHANGED sh

\* the two Prepare calls, the loop over the events and the Commit; then
\* processBatch returns and the worker resets its batch
WorkerCommits(w) ==
  /\ wk[w].pc = "tx"
  /\ \E tx \in TxOutcomes \ {"begin"} :
       \E fails \in (IF tx = "ok" THEN FailsFor(urls, wk[w].batch)
                     ELSE {[i \in 1 .. Len(wk[w].batch) |-> "ok"]}) :
         LET r == processBatch(urls, analytics, wk[w].batch, tx, fails)
         IN /\ faults + FaultsOf(urls, wk[w].batch, tx, fails) <= MaxFaults
            /\ faults' = faults + FaultsOf(urls, wk[w].batch, tx, fails)
            /\ urls' = r.urls
            /\ analytics' = r.analytics
            /\ flushes' = Append(flushes, [events |-> wk[w].batch, trigger |-> wk[w].trigger,
                                           tx |-> tx, fails |-> fails])
  /\ wk' = [wk EXCEPT ![w] = IdleWorker]
  /\ UNCHANGED <<cache, analyticsChannel, batch, phantoms, resp, nshorten>>
  /\ UNCHANGED closeVars
  /\ UNCHANGED recVars
  /\ UNCHANGED sh

(***************************************************************************)
(* Close: close(us.analyticsChannel); us.wg.Wait(); redisClient.Close();   *)
(* db.Close().  Nothing ever calls us.wg.Add, so the counter stays 0.      *)
(***************************************************************************)
CloseChannel ==
  /\ closePc = "idle"
  /\ closed' = TRUE
  /\ closePc' = "wait"
  /\ pendingAtClose' = Range(analyticsChannel) \cup Range(batch)
  /\ UNCHANGED <<wg, redisClosed, dbClosed>>
  /\ UNCHANGED <<urls, analytics, cache, resp, nshorten>>
  /\ UNCHANGED pipeVars
  /\ UNCHANGED recVars
  /\ UNCHANGED <<sh, wk>>

\* sync.WaitGroup.Wait returns when the counter is zero
WaitReturns(counter) == counter = 0

CloseWait ==
  /\ closePc = "wait"
  /\ WaitReturns(wg)
  /\ closePc' = "redis"
  /\ UNCHANGED <<closed, wg, redisClosed, dbClosed, pendingAtClose>>
  /\ UNCHANGED <<urls, analytics, cache, resp, nshorten>>
  /\ UNCHANGED pipeVars
  /\ UNCHANGED recVars
  /\ UNCHANGED <<sh, wk>>

CloseRedis ==
  /\ closePc = "redis"
  /\ redisClosed' = TRUE
  /\ closePc' = "db"
  /\ UNCHANGED <<closed, wg, dbClosed, pendingAtClose>>
  /\ UNCHANGED <<urls, analytics, cache, resp, nshorten>>
  /\ UNCHANGED pipeVars
  /\ UNCHANGED recVars
  /\ UNCHANGED <<sh, wk>>

CloseDB ==
  /\ closePc = "db"
  /\ dbClosed' = TRUE
  /\ closePc' = "done"
  /\ UNCHANGED <<closed, wg, redisClosed, pendingAtClose>>
  /\ UNCHANGED <<urls, analytics, cache, resp, nshorten>>
  /\ UNCHANGED pipeVars
  /\ UNCHANGED recVars
  /\ UNCHANGED <<sh, wk>>

(***************************************************************************)
(* GetURL: cache first, then the store, then repopulate the cache.         *)
(* cg, dq, cs are the outcomes of the cache Get, the store query and the   *)
(* cache Set.  All three calls carry the request's context: once its       *)
(* deadline has passed, every later call fails with the deadline error.    *)
(* The result's ctx says whether the deadline passed inside GetURL.        *)
(***************************************************************************)
\* the outcome of a store call made after a call with outcome `before`
AfterCall(before, q) == IF before = "timeout" THEN "timeout" ELSE q

\* the context after a call with outcome q
CtxAfter(q) == IF q = "timeout" THEN "expired" ELSE "live"

CacheHit(ch, c, cg) == cg = "ok" /\ ch[c].kind = "rec"

\* seeded fault: a failed cache Get fails the call
GetURLCacheErrorReturned(ch, u, c, cg, dq, cs) ==
  IF cg # "ok"
  THEN [err |-> cg, row |-> NoRow, cache |-> ch, storeRead |-> FALSE,
        ctx |-> CtxAfter(cg)]
  ELSE IF ch[c].kind = "rec"
  THEN [err |-> "none", row |-> ch[c].row, cache |-> ch, storeRead |-> FALSE,
        ctx |-> "live"]
  ELSE IF dq # "ok"
  THEN [err |-> dq, row |-> NoRow, cache |-> ch, storeRead |-> TRUE,
        ctx |-> CtxAfter(dq)]
  ELSE IF RowsByCode(u, c) = {}
  THEN [err |-> "notfound", row |-> NoRow, cache |-> ch, storeRead |-> TRUE,
        ctx |-> "live"]
  ELSE [err |-> "none", row |-> FirstRow(u, RowsByCode(u, c)),
        cache |-> CacheSet(ch, c, FirstRow(u, RowsByCode(u, c)), cs = "ok"),
        storeRead |-> TRUE, ctx |-> CtxAfter(cs)]

\* seeded fault: the error of json.Unmarshal is returned
GetURLDecodeErrorReturned(ch, u, c, cg, dq, cs) ==
  IF cg = "ok" /\ ch[c].kind = "bad"
  THEN [err |-> "decode", row |-> NoRow, cache |-> ch, storeRead |-> FALSE,
        ctx |-> "live"]
  ELSE IF CacheHit(ch, c, cg)
  THEN [err |-> "none", row |-> ch[c].row, cache |-> ch, storeRead |-> FALSE,
        ctx |-> "live"]
  ELSE IF AfterCall(cg, dq) # "ok"
  THEN [err |-> AfterCall(cg, dq), row |-> NoRow, cache |-> ch, storeRead |-> TRUE,
        ctx |-> CtxAfter(AfterCall(cg, dq))]
  ELSE IF RowsByCode(u, c) = {}
  THEN [err |-> "notfound", row |-> NoRow, cache |-> ch, storeRead |-> TRUE,
        ctx |-> "live"]
  ELSE [err |-> "none", row |-> FirstRow(u, RowsByCode(u, c)),
        cache |-> CacheSet(ch, c, FirstRow(u, RowsByCode(u, c)), cs = "ok"),
        storeRead |-> TRUE, ctx |-> CtxAfter(cs)]

\* seeded fault: a short code the store does not have is cached as well
GetURLCachesMiss(ch, u, c, cg, dq, cs) ==
  IF CacheHit(ch, c, cg)
  THEN [err |-> "none", row |-> ch[c].row, cache |-> ch, storeRead |-> FALSE,
        ctx |-> "live"]
  ELSE IF AfterCall(cg, dq) # "ok"
  THEN [err |-> AfterCall(cg, dq), row |-> NoRow, cache |-> ch, storeRead |-> TRUE,
        ctx |-> CtxAfter(AfterCall(cg, dq))]
  ELSE IF RowsByCode(u, c) = {}
  THEN [err |-> "notfound", row |-> NoRow, cache |-> CacheSet(ch, c, NoRow, cs = "ok"),
        storeRead |-> TRUE, ctx |-> CtxAfter(cs)]
  ELSE [err |-> "none", row |-> FirstRow(u, RowsByCode(u, c)),
        cache |-> CacheSet(ch, c, FirstRow(u, RowsByCode(u, c)), cs = "ok"),
        storeRead |-> TRUE, ctx |-> CtxAfter(cs)]

GetURL(ch, u, c, cg, dq, cs) ==
  IF CacheHit(ch, c, cg)
  THEN [err |-> "none", row |-> ch[c].row, cache |-> ch, storeRead |-> FALSE,
        ctx |-> "live"]
  ELSE IF AfterCall(cg, dq) # "ok"
  THEN [err |-> AfterCall(cg, dq), row |-> NoRow, cache |-> ch, storeRead |-> TRUE,
        ctx |-> CtxAfter(AfterCall(cg, dq))]
  ELSE IF RowsByCode(u, c) = {}
  THEN [err |-> "notfound", row |-> NoRow, cache |-> ch, storeRead |-> TRUE,
        ctx |-> "live"]
  ELSE LET row == FirstRow(u, RowsByCode(u, c))
       IN [err |-> "none", row |-> row, cache |-> CacheSet(ch, c, row, cs = "ok"),
           storeRead |-> TRUE, ctx |-> CtxAfter(cs)]

\* GetURL of the build without a cache (part_002): one SELECT by short code
GetURLDirect(u, c, dq) ==
  IF dq # "ok" THEN [err |-> dq, row |-> NoRow]
  ELSE IF RowsByCode(u, c) = {} THEN [err |-> "notfound", row |-> NoRow]
  ELSE [err |-> "none", row |-> FirstRow(u, RowsByCode(u, c))]

\* what GetURL can return and leave in the cache, over every outcome of its
\* cache and store calls
GetResults(ch, u, c) ==
  {GetURL(ch, u, c, cg, dq, cs) :
     cg \in CacheOutcomes, dq \in StoreOutcomes, cs \in CacheOutcomes}

(***************************************************************************)
(* redirectHandler: GetURL, then RecordAnalytics, then the 301.            *)
(***************************************************************************)
\* seeded fault: the context's deadline is not looked at
ErrorStatusNoTimeout(err, otherwise) == otherwise

\* the status of a failed call: the context's deadline decides, else the given status
ErrorStatus(err, otherwise) == IF err = "timeout" THEN StatusRequestTimeout ELSE otherwise

\* seeded fault: a dropped analytics event fails the redirect
RedirectResponseFailsOnDrop(c, g, outcome) ==
  IF g.err # "none"
  THEN [op |-> "redirect", arg |-> c, status |-> ErrorStatus(g.err, StatusNotFound),
        body |-> "", rec |-> "none", clicks |-> 0, nrows |-> 0]
  ELSE [op |-> "redirect", arg |-> c,
        status |-> IF outcome = "accepted" THEN StatusMovedPermanently
                   ELSE StatusInternalServerError,
        body |-> IF outcome = "accepted" THEN g.row.long_url ELSE "",
        rec |-> outcome, clicks |-> 0, nrows |-> 0]

\* the response redirectHandler writes after GetURL returned g and, when g is a
\* record, RecordAnalytics ended with `outcome`
RedirectResponse(c, g, outcome) ==
  IF g.err # "none"
  THEN [op |-> "redirect", arg |-> c, status |-> ErrorStatus(g.err, StatusNotFound),
        body |-> "", rec |-> "none", clicks |-> 0, nrows |-> 0]
  \* a panic unwinds the handler: no response is written
  ELSE [op |-> "redirect", arg |-> c,
        status |-> IF outcome = "panic" THEN 0 ELSE StatusMovedPermanently,
        body |-> IF outcome = "panic" THEN "" ELSE g.row.long_url,
        rec |-> outcome, clicks |-> 0, nrows |-> 0]

redirectHandler(c) ==
  \E g \in GetResults(cache, urls, c) :
       /\ cache' = g.cache
       /\ IF g.err # "none"
          THEN /\ resp' = RedirectResponse(c, g, "none")
               /\ UNCHANGED <<analyticsChannel, clock, accepted, dropped, late>>
          ELSE /\ clock < MaxRecords
               /\ LET event == [code |-> c, ts |-> clock + 1]
                      r == RecordAnalytics(analyticsChannel, closed, event)
                  IN /\ analyticsChannel' = r.queue
                     /\ clock' = clock + 1
                     /\ accepted' = IF r.outcome = "accepted"
                                    THEN Append(accepted, event) ELSE accepted
                     /\ dropped' = IF r.outcome = "dropped"
                                   THEN Append(dropped, event) ELSE dropped
                     /\ late' = (late \/ flushes # <<>>)
                     /\ resp' = RedirectResponse(c, g, r.outcome)
       /\ UNCHANGED <<urls, analytics, batch, phantoms, faults, flushes,
                      nshorten>>
       /\ UNCHANGED closeVars
       /\ UNCHANGED <<sh, wk>>

(***************************************************************************)
(* statsHandler: GetURL, then the click counter read from the store, then  *)
(* GetAnalytics.  kq and aq are the outcomes of the last two queries; both *)
(* time out when the deadline passed inside GetURL.                        *)
(***************************************************************************)
\* GetAnalytics: the rows of one short code, at most AnalyticsLimit of them
GetAnalytics(a, c) == Min(Count(a, LAMBDA r : r.short_code = c), AnalyticsLimit)

\* seeded fault: the click counter reported is the one of the record GetURL returned
StatsResponseCachedClicks(u, a, c, g, kq, aq) ==
  LET \* SELECT clicks ... Scan: fails with ErrNoRows when the row is absent
      kerr == IF g.ctx = "expired" THEN "timeout"
              ELSE IF kq # "ok" THEN kq
              ELSE IF RowsByCode(u, c) = {} THEN "err" ELSE "none"
  IN IF g.err # "none"
     THEN [op |-> "stats", arg |-> c, status |-> ErrorStatus(g.err, StatusNotFound),
           body |-> "", rec |-> "none", clicks |-> 0, nrows |-> 0]
     ELSE IF kerr # "none"
     THEN [op |-> "stats", arg |-> c,
           status |-> ErrorStatus(kerr, StatusInternalServerError),
           body |-> "", rec |-> "none", clicks |-> 0, nrows |-> 0]
     ELSE IF aq # "ok"
     THEN [op |-> "stats", arg |-> c,
           status |-> ErrorStatus(aq, StatusInternalServerError),
           body |-> "", rec |-> "none", clicks |-> 0, nrows |-> 0]
     ELSE [op |-> "stats", arg |-> c, status |-> StatusOK,
           body |-> g.row.long_url, rec |-> "none",
           clicks |-> g.row.clicks, nrows |-> GetAnalytics(a, c)]

\* the response statsHandler writes after GetURL returned g
StatsResponse(u, a, c, g, kq, aq) ==
  LET \* SELECT clicks ... Scan: fails with ErrNoRows when the row is absent
      kerr == IF g.ctx = "expired" THEN "timeout"
              ELSE IF kq # "ok" THEN kq
              ELSE IF RowsByCode(u, c) = {} THEN "err" ELSE "none"
  IN IF g.err # "none"
     THEN [op |-> "stats", arg |-> c, status |-> ErrorStatus(g.err, StatusNotFound),
           body |-> "", rec |-> "none", clicks |-> 0, nrows |-> 0]
     ELSE IF kerr # "none"
     THEN [op |-> "stats", arg |-> c,
           status |-> ErrorStatus(kerr, StatusInternalServerError),
           body |-> "", rec |-> "none", clicks |-> 0, nrows |-> 0]
     ELSE IF aq # "ok"
     THEN [op |-> "stats", arg |-> c,
           status |-> ErrorStatus(aq, StatusInternalServerError),
           body |-> "", rec |-> "none", clicks |-> 0, nrows |-> 0]
     ELSE [op |-> "stats", arg |-> c, status |-> StatusOK,
           body |-> g.row.long_url, rec |-> "none",
           clicks |-> Clicks(u, c), nrows |-> GetAnalytics(a, c)]

statsHandler(c) ==
  \E g \in GetResults(cache, urls, c) :
    /\ cache' = g.cache
    /\ resp' \in {StatsResponse(urls, analytics, c, g, kq, aq) :
                   kq \in StoreOutcomes, aq \in StoreOutcomes}
    /\ UNCHANGED <<urls, analytics, nshorten>>
    /\ UNCHANGED pipeVars
    /\ UNCHANGED closeVars
    /\ UNCHANGED recVars
    /\ UNCHANGED <<sh, wk>>

(***************************************************************************)
(* listHandler: the newest rows, at most `limit` of them.                  *)
(***************************************************************************)
\* the limit query parameter: taken when in 1 .. MaxLimit, else the default
ListLimit(l) == IF l > 0 /\ l <= MaxLimit THEN l ELSE DefaultLimit

LimitInputs == {0, 1, MaxLimit, MaxLimit + 1}

listHandler(l) ==
  \E q \in StoreOutcomes \ {"timeout"} :
    /\ resp' = IF q # "ok"
               THEN [op |-> "list", arg |-> "", status |-> StatusInternalServerError,
                     body |-> "", rec |-> "none", clicks |-> 0, nrows |-> 0]
               ELSE [op |-> "list", arg |-> "", status |-> StatusOK,
                     body |-> "", rec |-> "none", clicks |-> 0,
                     nrows |-> Min(Len(urls), ListLimit(l))]
    /\ UNCHANGED <<urls, analytics, cache, nshorten>>
    /\ UNCHANGED pipeVars
    /\ UNCHANGED closeVars
    /\ UNCHANGED recVars
    /\ UNCHANGED <<sh, wk>>

(***************************************************************************)
(* generateUniqueShortCode.  draws[i] is the i-th candidate that           *)
(* generateShortCode returns; failAt is the number of the existence query  *)
(* that fails (0: none does), ferr its error.                              *)
(***************************************************************************)
NumDraws == (ExtraLengths + 1) * MaxAttempts

\* seeded fault: the length grows one candidate early
LengthAtWidenEarly(i) ==
  Min(StartLength + (i \div MaxAttempts), StartLength + ExtraLengths)

\* the length asked of generateShortCode for the i-th candidate
LengthAt(i) == StartLength + ((i - 1) \div MaxAttempts)

RECURSIVE DrawsFrom(_)
DrawsFrom(i) ==
  IF i > NumDraws THEN {<<>>}
  ELSE {<<c>> \o d : c \in CodesOfLen(LengthAt(i)), d \in DrawsFrom(i + 1)}

DrawSeqs == DrawsFrom(1)

RECURSIVE GenFrom(_, _, _, _, _)
GenFrom(i, u, draws, failAt, ferr) ==
  IF i > NumDraws THEN [code |-> NoCode, err |-> "exhausted", checks |-> NumDraws]
  ELSE IF failAt = i THEN [code |-> NoCode, err |-> ferr, checks |-> i]
  ELSE IF RowsByCode(u, draws[i]) = {} THEN [code |-> draws[i], err |-> "none", checks |-> i]
  ELSE GenFrom(i + 1, u, draws, failAt, ferr)

\* seeded fault: when every candidate was in use, the last one is returned anyway
generateUniqueShortCodeReturnsLast(u, draws, failAt, ferr) ==
  LET g == GenFrom(1, u, draws, failAt, ferr)
  IN IF g.err = "exhausted"
     THEN [code |-> draws[NumDraws], err |-> "none", checks |-> NumDraws]
     ELSE g

generateUniqueShortCode(u, draws, failAt, ferr) == GenFrom(1, u, draws, failAt, ferr)

(***************************************************************************)
(* ShortenURL and shortenHandler.                                          *)
(***************************************************************************)
\* url.Parse: the scheme and the host of the inputs explored
ParseURL(str) ==
  IF str = "http://x" THEN [scheme |-> "http", host |-> "x"]
  ELSE IF str = "http://y" THEN [scheme |-> "http", host |-> "y"]
  ELSE IF str = "//x" THEN [scheme |-> "", host |-> "x"]
  ELSE IF str = "mailto:x" THEN [scheme |-> "mailto", host |-> ""]
  ELSE [scheme |-> "", host |-> ""]

\* seeded fault: the host is not looked at
isValidURLSchemeOnly(str) == ParseURL(str).scheme # ""

isValidURL(str) == LET p == ParseURL(str) IN p.scheme # "" /\ p.host # ""

\* the lookup by long URL found a row: err == nil
LookupFound(u, longURL, lq) == lq = "ok" /\ RowsByLongURL(u, longURL) # {}

\* seeded fault: short_code without its UNIQUE constraint
InsertOKNoUnique(u, code, iq) == iq = "ok"

\* INSERT INTO urls (short_code, long_url): refused when the short code exists (UNIQUE)
InsertOK(u, code, iq) == iq = "ok" /\ RowsByCode(u, code) = {}

\* seeded fault: the new row is counted as clicked once
NewRowClicked(u, code, longURL) ==
  [id |-> Len(u) + 1, short_code |-> code, long_url |-> longURL, clicks |-> 1,
   created_at |-> Len(u) + 1]

\* the row the INSERT returns: id from the sequence, clicks and created_at from
\* their defaults (the time of the INSERT, counted in rows inserted)
NewRow(u, code, longURL) ==
  [id |-> Len(u) + 1, short_code |-> code, long_url |-> longURL, clicks |-> 0,
   created_at |-> Len(u) + 1]

\* ShortenURL once generateUniqueShortCode has returned g (when it is called).
\* lq, iq: outcomes of the lookup and the insert; cs: of the cache Set
ShortenWith(u, ch, longURL, lq, g, iq, cs) ==
  IF ~isValidURL(longURL)
  THEN [err |-> "invalid URL format", row |-> NoRow, urls |-> u, cache |-> ch,
        storeTouched |-> FALSE]
  ELSE IF LookupFound(u, longURL, lq)
  THEN LET row == FirstRow(u, RowsByLongURL(u, longURL))
       IN [err |-> "none", row |-> row, urls |-> u,
           cache |-> CacheSet(ch, row.short_code, row, cs = "ok"), storeTouched |-> TRUE]
  ELSE IF g.err # "none"
  THEN [err |-> g.err, row |-> NoRow, urls |-> u, cache |-> ch, storeTouched |-> TRUE]
  ELSE IF ~InsertOK(u, g.code, iq)
  THEN [err |-> IF iq = "timeout" THEN "timeout" ELSE "err", row |-> NoRow,
        urls |-> u, cache |-> ch, storeTouched |-> TRUE]
  ELSE LET row == NewRow(u, g.code, longURL)
       IN [err |-> "none", row |-> row, urls |-> Append(u, row),
           cache |-> CacheSet(ch, g.code, row, cs = "ok"), storeTouched |-> TRUE]

\* draws, failAt, ferr: the inputs of generateUniqueShortCode; a lookup that
\* timed out has used up the context, so the first existence query times out
ShortenURL(u, ch, longURL, lq, draws, failAt, ferr, iq, cs) ==
  ShortenWith(u, ch, longURL, lq,
              generateUniqueShortCode(u, draws, IF lq = "timeout" THEN 1 ELSE failAt,
                                      IF lq = "timeout" THEN "timeout" ELSE ferr),
              iq, cs)

\* what generateUniqueShortCode can return on store u, over every sequence of
\* draws and every failure of an existence query (all of them time out once the
\* context has expired)
GenerateResults(u, expired) ==
  IF expired
  THEN {generateUniqueShortCode(u, draws, 1, "timeout") : draws \in DrawSeqs}
  ELSE {generateUniqueShortCode(u, draws, failAt, ferr) :
          draws \in DrawSeqs, failAt \in 0 .. NumDraws, ferr \in StoreOutcomes \ {"ok"}}

\* what ShortenURL can return and leave behind, over every sequence of draws
\* and every outcome of the store and cache calls it makes: it calls
\* generateUniqueShortCode only after a lookup that found no row, and the
\* INSERT only with a code
ShortenResults(u, ch, longURL) ==
  LET live == GenerateResults(u, FALSE)
      expired == GenerateResults(u, TRUE)
      notCalled == [code |-> NoCode, err |-> "none", checks |-> 0]
  IN UNION {IF ~isValidURL(longURL) \/ LookupFound(u, longURL, lq)
            THEN {ShortenWith(u, ch, longURL, lq, notCalled, "ok", cs) :
                    cs \in CacheOutcomes}
            ELSE UNION {IF g.err # "none"
                        THEN {ShortenWith(u, ch, longURL, lq, g, "ok", "ok")}
                        ELSE {ShortenWith(u, ch, longURL, lq, g, iq, cs) :
                                iq \in StoreOutcomes, cs \in CacheOutcomes} :
                          g \in IF lq = "timeout" THEN expired ELSE live} :
              lq \in StoreOutcomes}

\* the response shortenHandler writes after ShortenURL returned r
ShortenResponse(longURL, r) ==
  [op |-> "shorten", arg |-> longURL,
   status |-> IF r.err = "none" THEN StatusOK ELSE ErrorStatus(r.err, StatusBadRequest),
   body |-> IF r.err = "none" THEN r.row.short_code
            ELSE IF r.err = "timeout" THEN "Request timeout"
            ELSE r.err,
   rec |-> "none", clicks |-> 0, nrows |-> 0]

shortenHandler(longURL) ==
  IF longURL = ""
  THEN /\ resp' = [op |-> "shorten", arg |-> longURL, status |-> StatusBadRequest,
                   body |-> "URL is required", rec |-> "none", clicks |-> 0, nrows |-> 0]
       /\ UNCHANGED <<urls, analytics, cache, nshorten>>
       /\ UNCHANGED pipeVars
       /\ UNCHANGED closeVars
       /\ UNCHANGED recVars
       /\ UNCHANGED <<sh, wk>>
  ELSE /\ nshorten < MaxShorten
       /\ nshorten' = nshorten + 1
       /\ \E r \in ShortenResults(urls, cache, longURL) :
              /\ urls' = r.urls
              /\ cache' = r.cache
              /\ resp' = ShortenResponse(longURL, r)
       /\ UNCHANGED analytics
       /\ UNCHANGED pipeVars
       /\ UNCHANGED closeVars
       /\ UNCHANGED recVars
       /\ UNCHANGED <<sh, wk>>

\* a cache entry reaches its 24 h expiry
CacheExpire(c) ==
  /\ cache[c] # NoEntry
  /\ cache' = [cache EXCEPT ![c] = NoEntry]
  /\ UNCHANGED <<urls, analytics, resp, nshorten>>
  /\ UNCHANGED pipeVars
  /\ UNCHANGED closeVars
  /\ UNCHANGED recVars
  /\ UNCHANGED <<sh, wk>>

(***************************************************************************)
(* ShortenURL statement by statement, for goroutines that serve concurrent *)
(* requests: each store call and the cache Set is one step, and sh[p]      *)
(* holds goroutine p's position and locals.  The existence checks of one   *)
(* generateUniqueShortCode call are taken together at the moment of its    *)
(* last check: rows are never deleted, so a candidate found used earlier   *)
(* is still used then.                                                     *)
(***************************************************************************)
\* the call is made: isValidURL decides whether the store is consulted at all
ShortenCall(p, longURL) ==
  /\ sh[p].pc = "idle"
  /\ nshorten < MaxShorten
  /\ nshorten' = nshorten + 1
  /\ sh' = [sh EXCEPT ![p] =
              IF isValidURL(longURL)
              THEN [NoCall EXCEPT !.pc = "lookup", !.url = longURL]
              ELSE [NoCall EXCEPT !.pc = "done", !.url = longURL,
                                  !.err = "invalid URL format"]]
  /\ UNCHANGED <<urls, analytics, cache, resp>>
  /\ UNCHANGED pipeVars
  /\ UNCHANGED closeVars
  /\ UNCHANGED recVars
  /\ UNCHANGED wk

\* SELECT ... WHERE long_url = $1, and the test err == nil
ShortenLookup(p) ==
  /\ sh[p].pc = "lookup"
  /\ \E lq \in StoreOutcomes :
       sh' = [sh EXCEPT ![p] =
               IF LookupFound(urls, sh[p].url, lq)
               THEN [sh[p] EXCEPT !.pc = "set", !.lookup = lq,
                                  !.row = FirstRow(urls, RowsByLongURL(urls, sh[p].url))]
               ELSE [sh[p] EXCEPT !.pc = "generate", !.lookup = lq,
                                  !.ctx = IF lq = "timeout" THEN "expired" ELSE "live"]]
  /\ UNCHANGED <<urls, analytics, cache, resp, nshorten>>
  /\ UNCHANGED pipeVars
  /\ UNCHANGED closeVars
  /\ UNCHANGED recVars
  /\ UNCHANGED wk

\* shortCode, err := us.generateUniqueShortCode(ctx)
ShortenGenerate(p) ==
  /\ sh[p].pc = "generate"
  /\ \E g \in GenerateResults(urls, sh[p].ctx = "expired") :
       sh' = [sh EXCEPT ![p] =
               IF g.err # "none"
               THEN [sh[p] EXCEPT !.pc = "done", !.err = g.err]
               ELSE [sh[p] EXCEPT !.pc = "insert", !.code = g.code]]
  /\ UNCHANGED <<urls, analytics, cache, resp, nshorten>>
  /\ UNCHANGED pipeVars
  /\ UNCHANGED closeVars
  /\ UNCHANGED recVars
  /\ UNCHANGED wk

\* INSERT INTO urls ... RETURNING: the UNIQUE constraint decides at this moment
ShortenInsert(p) ==
  /\ sh[p].pc = "insert"
  /\ \E iq \in StoreOutcomes :
       IF InsertOK(urls, sh[p].code, iq)
       THEN LET row == NewRow(urls, sh[p].code, sh[p].url)
            IN /\ urls' = Append(urls, row)
               /\ sh' = [sh EXCEPT ![p] = [sh[p] EXCEPT !.pc = "set", !.row = row,
                                                        !.inserted = TRUE]]
       ELSE /\ urls' = urls
            /\ sh' = [sh EXCEPT ![p] =
                        [sh[p] EXCEPT !.pc = "done",
                                      !.err = IF iq = "timeout" THEN "timeout"
                                              ELSE IF iq = "ok" THEN "duplicate key"
                                              ELSE "err"]]
  /\ UNCHANGED <<analytics, cache, resp, nshorten>>
  /\ UNCHANGED pipeVars
  /\ UNCHANGED closeVars
  /\ UNCHANGED recVars
  /\ UNCHANGED wk

\* us.redisClient.Set(ctx, shortCode, json, 24h), its error ignored, and the return
ShortenSet(p) ==
  /\ sh[p].pc = "set"
  /\ \E cs \in CacheOutcomes :
       cache' = CacheSet(cache, sh[p].row.short_code, sh[p].row, cs = "ok")
  /\ sh' = [sh EXCEPT ![p] = [sh[p] EXCEPT !.pc = "done"]]
  /\ UNCHANGED <<urls, analytics, resp, nshorten>>
  /\ UNCHANGED pipeVars
  /\ UNCHANGED closeVars
  /\ UNCHANGED recVars
  /\ UNCHANGED wk

(***************************************************************************)
(* The system.  NewURLShortener leaves an empty cache, an empty channel of *)
(* capacity QueueCap and one running worker; the tables are created IF NOT *)
(* EXISTS, so the store holds what earlier runs left in it.                *)
(***************************************************************************)
InitService ==
  /\ analytics = <<>>
  /\ cache = [c \in ReqCodes |-> NoEntry]
  /\ analyticsChannel = <<>>
  /\ closed = FALSE
  /\ batch = <<>>
  /\ wg = 0
  /\ closePc = "idle"
  /\ redisClosed = FALSE
  /\ dbClosed = FALSE
  /\ clock = 0
  /\ nshorten = 0
  /\ phantoms = 0
  /\ faults = 0
  /\ resp = NoResp
  /\ accepted = <<>>
  /\ dropped = <<>>
  /\ flushes = <<>>
  /\ late = FALSE
  /\ pendingAtClose = {}
  /\ sh = [p \in Procs |-> NoCall]
  /\ wk = [w \in WorkersStarted |-> IdleWorker]

\* a store in which two URLs have been shortened
SeededURLs ==
  <<[id |-> 1, short_code |-> "a6", long_url |-> "http://x", clicks |-> 0,
     created_at |-> 1],
    [id |-> 2, short_code |-> "b6", long_url |-> "http://y", clicks |-> 0,
     created_at |-> 2]>>

SeededCodes == {SeededURLs[i].short_code : i \in 1 .. Len(SeededURLs)}

(***************************************************************************)
(* Spec: the analytics pipeline of the running service (RecordAnalytics    *)
(* and the worker) over a seeded store; "zz" is a short code the store     *)
(* does not have.  main never reaches its deferred Close (log.Fatal exits  *)
(* the process), so the running service is never closed.                   *)
(***************************************************************************)
RecCodes == SeededCodes \cup {"zz"}

Init == InitService /\ urls = SeededURLs

Next ==
  \/ WorkerReceive
  \/ WorkerTick
  \/ \E c \in RecCodes : RecordCall(c)

Spec == Init /\ [][Next]_vars

(***************************************************************************)
(* SpecClose: the same pipeline with one call of Close.                    *)
(***************************************************************************)
NextClose ==
  \/ WorkerReceive
  \/ WorkerTick
  \/ \E c \in RecCodes : RecordCall(c)
  \/ CloseChannel
  \/ CloseWait
  \/ CloseRedis
  \/ CloseDB

SpecClose == Init /\ [][NextClose]_vars

(***************************************************************************)
(* SpecLive: resolved redirects feeding the pipeline, with no failed store  *)
(* call in a flush and no Close.  The worker's loop keeps running, and its select  *)
(* takes each ready case eventually: weak fairness of both cases.          *)
(***************************************************************************)
NoFault == faults' = faults

LiveReceive == WorkerReceive /\ NoFault

LiveTick == WorkerTick /\ NoFault

\* a redirect that resolved its short code
Resolved(c) == redirectHandler(c) /\ resp'.status = StatusMovedPermanently

NextLive ==
  \/ LiveReceive
  \/ LiveTick
  \/ \E c \in SeededCodes : Resolved(c)

SpecLive == Init /\ [][NextLive]_vars /\ WF_vars(LiveReceive) /\ WF_vars(LiveTick)

(***************************************************************************)
(* SpecShorten: the shorten path over a store that starts empty.           *)
(***************************************************************************)
InitShorten == InitService /\ urls = <<>>

NextShorten ==
  \/ \E l \in InputURLs : shortenHandler(l)
  \/ \E c \in ReqCodes : CacheExpire(c)

SpecShorten == InitShorten /\ [][NextShorten]_vars

(***************************************************************************)
(* SpecConc: concurrent ShortenURL calls over a store that starts empty.   *)
(***************************************************************************)
NextConc ==
  \/ \E p \in Procs, l \in InputURLs : ShortenCall(p, l)
  \/ \E p \in Procs : ShortenLookup(p)
  \/ \E p \in Procs : ShortenGenerate(p)
  \/ \E p \in Procs : ShortenInsert(p)
  \/ \E p \in Procs : ShortenSet(p)

SpecConc == InitShorten /\ [][NextConc]_vars

(***************************************************************************)
(* SpecRequests: the shorten and redirect handlers and cache expiry over a *)
(* store that starts empty; the worker is left out, so the events of the   *)
(* redirects stay queued.                                                  *)
(***************************************************************************)
NextRequests ==
  \/ \E l \in InputURLs : shortenHandler(l)
  \/ \E c \in ReqCodes : redirectHandler(c) /\ clock < MaxRedirects
  \/ \E c \in ReqCodes : CacheExpire(c)

SpecRequests == InitShorten /\ [][NextRequests]_vars

(***************************************************************************)
(* SpecService: the four handlers and the analytics worker together, over  *)
(* the seeded store: requests for one stored short code and one unknown    *)
(* one, and shorten requests for one stored long URL.                      *)
(***************************************************************************)
ServiceCodes == {SeededURLs[1].short_code, "zz"}

ServiceURLs == {SeededURLs[1].long_url}

NextService ==
  \/ \E l \in ServiceURLs : shortenHandler(l)
  \/ \E c \in ServiceCodes : redirectHandler(c) /\ clock < MaxRedirects
  \/ \E c \in ServiceCodes : statsHandler(c)
  \/ \E l \in LimitInputs : listHandler(l)
  \/ WorkerReceive
  \/ WorkerTick

SpecService == Init /\ [][NextService]_vars

(***************************************************************************)
(* SpecAlloc: shorten requests over the stores that earlier shortens can   *)
(* have left: a code of length 7 is issued only when a code of length 6    *)
(* is in use, one of length 8 only when one of length 7 is.  With a code   *)
(* of every length in use, generateUniqueShortCode can run out of          *)
(* candidates.                                                             *)
(***************************************************************************)
\* the long URL each stored short code was issued for
StoredURL(c) ==
  IF c = "a6" THEN "http://x" ELSE IF c = "b6" THEN "http://y"
  ELSE IF c = "a7" THEN "http://z7" ELSE "http://z8"

CodeOrder == <<"a6", "b6", "a7", "a8">>

\* the rows of the codes in S, in the order they were inserted
RECURSIVE StoreOf(_, _, _)
StoreOf(S, i, u) ==
  IF i > Len(CodeOrder) THEN u
  ELSE StoreOf(S, i + 1,
               IF CodeOrder[i] \in S
               THEN Append(u, NewRow(u, CodeOrder[i], StoredURL(CodeOrder[i])))
               ELSE u)

AllocStores ==
  {StoreOf(S, 1, <<>>) :
     S \in {T \in SUBSET AllCodes :
              /\ "a7" \in T => T \cap CodesOfLen(6) # {}
              /\ "a8" \in T => "a7" \in T}}

InitAlloc == InitService /\ urls \in AllocStores

NextAlloc ==
  \/ \E l \in InputURLs : shortenHandler(l)
  \/ \E c \in ReqCodes : CacheExpire(c)

SpecAlloc == InitAlloc /\ [][NextAlloc]_vars

(***************************************************************************)
(* SpecCache: redirect and stats requests over the seeded store and a      *)
(* cache that holds, under every short code asked for, a value that does   *)
(* not decode.  The Redis server outlives the service and is written by    *)
(* whoever reaches it, so NewURLShortener can find such values.            *)
(***************************************************************************)
InitCache ==
  /\ analytics = <<>>
  /\ cache = [c \in ReqCodes |-> IF c \in RecCodes THEN BadEntry ELSE NoEntry]
  /\ analyticsChannel = <<>>
  /\ closed = FALSE
  /\ batch = <<>>
  /\ wg = 0
  /\ closePc = "idle"
  /\ redisClosed = FALSE
  /\ dbClosed = FALSE
  /\ clock = 0
  /\ nshorten = 0
  /\ phantoms = 0
  /\ faults = 0
  /\ resp = NoResp
  /\ accepted = <<>>
  /\ dropped = <<>>
  /\ flushes = <<>>
  /\ late = FALSE
  /\ pendingAtClose = {}
  /\ sh = [p \in Procs |-> NoCall]
  /\ wk = [w \in WorkersStarted |-> IdleWorker]
  /\ urls = SeededURLs

NextCache ==
  \/ \E c \in RecCodes : redirectHandler(c)
  \/ \E c \in RecCodes : statsHandler(c)

SpecCache == InitCache /\ [][NextCache]_vars

(***************************************************************************)
(* SpecLookup: redirects over the seeded store and a cache in which each   *)
(* requested key starts empty or with a value that does not decode;        *)
(* entries are written by GetURL and expire.                               *)
(***************************************************************************)
LookupCaches ==
  {ch \in [ReqCodes -> {NoEntry, BadEntry}] : \A c \in ReqCodes \ RecCodes : ch[c] = NoEntry}

InitLookup ==
  /\ analytics = <<>>
  /\ cache \in LookupCaches
  /\ analyticsChannel = <<>>
  /\ closed = FALSE
  /\ batch = <<>>
  /\ wg = 0
  /\ closePc = "idle"
  /\ redisClosed = FALSE
  /\ dbClosed = FALSE
  /\ clock = 0
  /\ nshorten = 0
  /\ phantoms = 0
  /\ faults = 0
  /\ resp = NoResp
  /\ accepted = <<>>
  /\ dropped = <<>>
  /\ flushes = <<>>
  /\ late = FALSE
  /\ pendingAtClose = {}
  /\ sh = [p \in Procs |-> NoCall]
  /\ wk = [w \in WorkersStarted |-> IdleWorker]
  /\ urls = SeededURLs

NextLookup ==
  \/ \E c \in RecCodes : redirectHandler(c) /\ clock < MaxRedirects
  \/ \E c \in RecCodes : CacheExpire(c)

SpecLookup == InitLookup /\ [][NextLookup]_vars

(***************************************************************************)
(* SpecWorker: RecordAnalytics against the workers taken statement by      *)
(* statement, over the seeded store.                                       *)
(***************************************************************************)
NextWorker ==
  \/ \E c \in RecCodes : RecordCall(c)
  \/ \E w \in WorkersStarted : WorkerTakes(w)
  \/ \E w \in WorkersStarted : WorkerTicks(w)
  \/ \E w \in WorkersStarted : WorkerBegins(w)
  \/ \E w \in WorkersStarted : WorkerCommits(w)

SpecWorker == Init /\ [][NextWorker]_vars

(***************************************************************************)
(* Properties of the pipeline.                                             *)
(***************************************************************************)
\* the event a call of RecordAnalytics(c) builds in the current state
NextEvent(c) == [code |-> c, ts |-> clock + 1]

\* a step that ran processBatch
FlushStep == Len(flushes') = Len(flushes) + 1

LastFlush == flushes'[Len(flushes')]

FlushedEvents == Concat([i \in 1 .. Len(flushes) |-> flushes[i].events])

\* C1: RecordAnalytics never blocks and never fails its caller: a call is always
\* possible and returns; on a queue that holds QueueCap events it drops the event
\* and leaves the queue unchanged, otherwise it appends the event at the tail.
C1_RecordNeverBlocks ==
  /\ [](\A c \in RecCodes : clock < MaxRecords => ENABLED RecordCall(c))
  /\ [][\A c \in RecCodes :
          RecordCall(c) =>
            /\ Panicked' = Panicked
            /\ IF Len(analyticsChannel) >= QueueCap
               THEN /\ analyticsChannel' = analyticsChannel
                    /\ dropped' = Append(dropped, NextEvent(c))
               ELSE /\ analyticsChannel' = Append(analyticsChannel, NextEvent(c))
                    /\ accepted' = Append(accepted, NextEvent(c))
                    /\ dropped' = dropped]_vars

\* C1 witness: an event was dropped on a full queue after others were appended
C1_Witness ==
  /\ Len(analyticsChannel) = QueueCap
  /\ dropped # <<>>
  /\ Len(accepted) >= QueueCap

\* the worker has not taken anything from the queue yet: a received event is in
\* the batch or in a flush
WorkerStalled == batch = <<>> /\ flushes = <<>>

\* C2: the queue never holds more than QueueCap events; with the worker stalled,
\* after n calls the queue is exactly the first min(n, QueueCap) events in call
\* order, the other n - QueueCap events were dropped, and every call returned.
C2_Backpressure ==
  /\ Len(analyticsChannel) <= QueueCap
  /\ WorkerStalled =>
       /\ Len(analyticsChannel) = Min(clock, QueueCap)
       /\ \A i \in 1 .. Len(analyticsChannel) : analyticsChannel[i].ts = i
       /\ analyticsChannel = accepted
       /\ Len(dropped) = clock - Min(clock, QueueCap)
       /\ \A j \in 1 .. Len(dropped) : dropped[j].ts = QueueCap + j
       /\ Panicked = 0

\* C2 witness: more calls than the capacity while the worker is stalled
C2_Witness == WorkerStalled /\ clock > QueueCap /\ dropped # <<>>

\* C3: a batch that reaches BatchSize events is flushed in the very worker step that
\* completes it, so the batch at rest holds fewer than BatchSize events and every
\* flush holds between 1 and BatchSize events (exactly BatchSize when size-triggered).
C3_BatchBounds ==
  /\ [](/\ Len(batch) < BatchSize
        /\ \A i \in 1 .. Len(flushes) :
             /\ Len(flushes[i].events) >= 1
             /\ Len(flushes[i].events) <= BatchSize
             /\ flushes[i].trigger = "size" => Len(flushes[i].events) = BatchSize)
  /\ [][(WorkerReceive /\ Len(batch) = BatchSize - 1) =>
          /\ FlushStep
          /\ LastFlush.trigger = "size"
          /\ LastFlush.events = Append(batch, Head(analyticsChannel))
          /\ batch' = <<>>]_vars

\* C3 witness: a size-triggered and a timer-triggered flush have both happened
C3_Witness ==
  /\ \E i \in 1 .. Len(flushes) : flushes[i].trigger = "size"
  /\ \E i \in 1 .. Len(flushes) : flushes[i].trigger = "timer"

\* k events were enqueued together into the empty pipeline, nothing else arrived,
\* and the pipeline is empty again
BurstDrained(k) ==
  /\ clock = k
  /\ Len(accepted) = k
  /\ analyticsChannel = <<>>
  /\ batch = <<>>
  /\ flushes # <<>>
  /\ ~late

\* C4 as claimed: fewer than BatchSize events enqueued into an empty pipeline end
\* up in exactly one flush, timer-triggered, holding all of them.
C4_OneTimerFlush ==
  \A k \in 1 .. BatchSize - 1 :
    BurstDrained(k) =>
      /\ Len(flushes) = 1
      /\ flushes[1].trigger = "timer"
      /\ flushes[1].events = accepted

\* C4 as amended: the events end up in one or more flushes, all timer-triggered,
\* which together hold each of the k events once, in enqueue order.
C4_TimerFlushesOnly ==
  \A k \in 1 .. BatchSize - 1 :
    BurstDrained(k) =>
      /\ Len(flushes) >= 1
      /\ \A i \in 1 .. Len(flushes) : flushes[i].trigger = "timer"
      /\ FlushedEvents = accepted

\* C4 witness: BatchSize - 1 events, drained by a single timer flush
C4_Witness ==
  /\ BurstDrained(BatchSize - 1)
  /\ Len(flushes) = 1
  /\ flushes[1].trigger = "timer"

\* C6: a flush whose transaction fails to begin, prepare or commit leaves the store
\* as it was and discards its batch: its events are in no later flush, nor back in
\* the batch or the queue.
C6_FailedFlushLost ==
  /\ [][(FlushStep /\ LastFlush.tx # "ok") =>
          /\ urls' = urls
          /\ analytics' = analytics
          /\ batch' = <<>>]_vars
  /\ [](\A i \in 1 .. Len(flushes) :
          flushes[i].tx # "ok" =>
            \A e \in Range(flushes[i].events) :
              /\ e \notin Range(batch)
              /\ e \notin Range(analyticsChannel)
              /\ \A j \in 1 .. Len(flushes) : j # i => e \notin Range(flushes[j].events))

\* C6 witness: a flush failed at commit and a later flush committed
C6_Witness ==
  \E i, j \in 1 .. Len(flushes) :
    i < j /\ flushes[i].tx = "commit" /\ flushes[j].tx = "ok"

\* the events of flush f whose two statements both succeeded
RECURSIVE AppliedRows(_, _)
AppliedRows(events, fails) ==
  IF events = <<>> THEN <<>>
  ELSE (IF Head(fails) = "ok"
        THEN <<[short_code |-> Head(events).code, ts |-> Head(events).ts]>>
        ELSE <<>>) \o AppliedRows(Tail(events), Tail(fails))

AppliedCount(f, c) ==
  Cardinality({i \in 1 .. Len(f.events) : f.events[i].code = c /\ f.fails[i] = "ok"})

C8_CloseFlushesPending ==
  [][CloseDB => \A e \in pendingAtClose : e \in Range(FlushedEvents)]_vars

\* C9 as claimed: once Close has begun, RecordAnalytics leaves the queue alone and
\* returns to its caller.
C9_RecordAfterCloseReturns ==
  [][\A c \in RecCodes :
       (closed /\ RecordCall(c)) =>
         /\ analyticsChannel' = analyticsChannel
         /\ accepted' = accepted
         /\ Panicked' = Panicked]_vars

AcceptedCount(c) == Count(accepted, LAMBDA e : e.code = c)

RowCount(c) == Count(analytics, LAMBDA r : r.short_code = c)

\* C5: with a fair worker and ticker, no failed store call and no Close, every
\* event RecordAnalytics accepted is eventually committed, adding exactly one click
\* and exactly one analytics row for its short code.
C5_AcceptedEventuallyCommitted ==
  /\ [](\A c \in SeededCodes :
          /\ Clicks(urls, c) = RowCount(c)
          /\ RowCount(c) <= AcceptedCount(c)
          /\ \A i, j \in 1 .. Len(analytics) :
               analytics[i].ts = analytics[j].ts => i = j)
  /\ \A n \in 1 .. MaxRecords :
       (\E e \in Range(accepted) : e.ts = n)
         ~> (\E r \in Range(analytics) :
               /\ r.ts = n
               /\ [code |-> r.short_code, ts |-> n] \in Range(accepted)
               /\ Clicks(urls, r.short_code) >= 1)

\* C5 witness: a redirect's event was accepted and its click and row are committed
C5_Witness ==
  \E c \in SeededCodes :
    /\ resp.op = "redirect"
    /\ resp.status = StatusMovedPermanently
    /\ AcceptedCount(c) >= 2
    /\ Clicks(urls, c) = AcceptedCount(c)
    /\ RowCount(c) = AcceptedCount(c)

\* C10 as claimed: ShortenURL of a long URL that already has a row leaves the
\* number of rows unchanged and, when it returns a record, returns that row's code.
C10_ShortenIdempotent ==
  [][\A l \in ValidURLs :
       (shortenHandler(l) /\ RowsByLongURL(urls, l) # {}) =>
         /\ Len(urls') = Len(urls)
         /\ resp'.status = StatusOK =>
              resp'.body = FirstRow(urls, RowsByLongURL(urls, l)).short_code]_vars

(***************************************************************************)
(* Properties of concurrent ShortenURL calls.                              *)
(***************************************************************************)
\* the goroutines whose ShortenURL call was on long URL l
CallsOn(l) == {p \in Procs : sh[p].url = l}

\* goroutine p's call returned a record, each of its store calls having succeeded
ReturnedClean(p) == sh[p].pc = "done" /\ sh[p].err = "none" /\ sh[p].lookup = "ok"

\* C11: once the concurrent ShortenURL calls on one long URL have all returned
\* a record (no store call of theirs having failed), the store holds exactly
\* one row with that long URL.
C11_OneRowPerLongURL ==
  \A l \in ValidURLs :
    (CallsOn(l) # {} /\ \A p \in CallsOn(l) : ReturnedClean(p))
      => Cardinality(RowsByLongURL(urls, l)) = 1

\* the goroutines p and q, distinct, both came out of generateUniqueShortCode
\* with the same candidate: both observed it as unused
SameCandidate(p, q) == p # q /\ sh[p].code # NoCode /\ sh[p].code = sh[q].code

\* C12: no two rows of urls have the same short code, and of two concurrent
\* allocators that both observed the same candidate as unused at most one
\* has inserted it.
C12_ShortCodeUnique ==
  /\ \A i, j \in 1 .. Len(urls) : urls[i].short_code = urls[j].short_code => i = j
  /\ \A p, q \in Procs : SameCandidate(p, q) => ~(sh[p].inserted /\ sh[q].inserted)

\* two allocators observed the same candidate as unused; one inserted it and
\* the other's insert was refused
C12_Witness ==
  \E p, q \in Procs :
    /\ SameCandidate(p, q)
    /\ sh[p].inserted
    /\ sh[q].pc = "done" /\ sh[q].err = "duplicate key"
    /\ Cardinality(RowsByCode(urls, sh[p].code)) = 1

\* goroutine p's ShortenURL call returned a record
Returned(p) == sh[p].pc = "done" /\ sh[p].err = "none"

StoreRow(c) == FirstRow(urls, RowsByCode(urls, c))

\* C14 as stated: a redirect whose GetURL missed the cache and read c's record
\* from the store leaves c's record in the cache.
C14_MissPopulatesCache ==
  [][\A c \in ReqCodes :
       (redirectHandler(c) /\ cache[c] = NoEntry
          /\ resp'.status = StatusMovedPermanently)
         => cache'[c] = Entry(StoreRow(c))]_vars

\* GetURL for c in the current state, the cache Get answering, the store query
\* succeeding and the cache Set succeeding
GetThroughCache(c) == GetURL(cache, urls, c, "ok", "ok", "ok")

\* C14: when a GetURL for c misses the cache and reads c's record from the
\* store, the cache holds c's record afterwards provided the cache Set
\* succeeded (else the cache is left as it was); and a GetURL for c that finds
\* the entry (cache reachable, entry not expired) returns that record without
\* a store read, whatever the store would answer.
C14_CacheServesAfterMiss ==
  /\ [](\A c \in ReqCodes :
          (cache[c] = NoEntry /\ RowsByCode(urls, c) # {})
            => LET g == GetThroughCache(c)
               IN /\ g.storeRead /\ g.err = "none" /\ g.row = StoreRow(c)
                  /\ g.cache[c] = Entry(StoreRow(c))
                  /\ \A dq \in StoreOutcomes, cs \in CacheOutcomes :
                       LET h == GetURL(g.cache, urls, c, "ok", dq, cs)
                       IN /\ h.err = "none" /\ h.row = g.row
                          /\ ~h.storeRead /\ h.cache = g.cache)
  /\ [][\A c \in ReqCodes :
          (redirectHandler(c) /\ cache[c] = NoEntry
             /\ resp'.status = StatusMovedPermanently)
            => cache'[c] \in {NoEntry, Entry(StoreRow(c))}]_vars

\* a redirect has resolved a short code and the cache holds its record
C14_Witness ==
  /\ resp.op = "redirect" /\ resp.status = StatusMovedPermanently
  /\ cache[resp.arg] = Entry(StoreRow(resp.arg))
  /\ resp.body = cache[resp.arg].row.long_url

\* the failures of the cache calls of one operation: the Get, the Set, or both
CacheFailures == {f \in [get : {"ok", "err"}, set : {"ok", "err"}] :
                    f.get = "err" \/ f.set = "err"}

\* C15: with the cache Get or Set failing, GetURL returns what a direct store
\* read returns (the row, or not-found when there is none) and ShortenURL
\* returns and stores what it does with a working cache; neither returns a
\* cache error, and a failed Set leaves the cache as it was.
C15_CacheFailureTolerated ==
  /\ \A c \in ReqCodes, f \in CacheFailures :
       LET g == GetURL(cache, urls, c, f.get, "ok", f.set)
       IN (f.get = "err" \/ cache[c] = NoEntry)
            => /\ g.err = IF RowsByCode(urls, c) = {} THEN "notfound" ELSE "none"
               /\ g.err = "none" => g.row = StoreRow(c)
               /\ f.set = "err" => g.cache = cache
  /\ \A l \in ValidURLs, draws \in DrawSeqs :
       LET r == ShortenURL(urls, cache, l, "ok", draws, 0, "err", "ok", "err")
           w == ShortenURL(urls, cache, l, "ok", draws, 0, "err", "ok", "ok")
           g == generateUniqueShortCode(urls, draws, 0, "err")
       IN /\ r.err = w.err /\ r.row = w.row /\ r.urls = w.urls
          /\ r.cache = cache
          /\ r.err = (IF RowsByLongURL(urls, l) # {} THEN "none" ELSE g.err)
          /\ r.err = "none" => /\ RowsByCode(r.urls, r.row.short_code) # {}
                               /\ r.row = FirstRow(r.urls, RowsByCode(r.urls, r.row.short_code))
                               /\ r.row.long_url = l

\* a redirect resolved a stored short code although the cache holds no entry
\* for it after the call: the Set failed
C15_Witness ==
  /\ resp.op = "redirect" /\ resp.status = StatusMovedPermanently
  /\ cache[resp.arg] = NoEntry
  /\ resp.body = StoreRow(resp.arg).long_url

\* short code c is absent from both the cache and the store
Absent(c) == cache[c] = NoEntry /\ RowsByCode(urls, c) = {}

\* C16: a redirect answers NotFound only when the code is absent from both the
\* cache and the store, and a redirect of an absent code fails (NotFound, or
\* the timeout); a failed redirect enqueues no event and writes no cache
\* entry; a successful one makes exactly one RecordAnalytics call, for its
\* short code.
C16_NotFoundExactlyWhenAbsent ==
  [][\A c \in ReqCodes :
       redirectHandler(c)
         => /\ resp'.status = StatusNotFound => Absent(c)
            /\ Absent(c) => resp'.status \in {StatusNotFound, StatusRequestTimeout}
            /\ resp'.status # StatusMovedPermanently
                 => /\ cache' = cache
                    /\ UNCHANGED <<analyticsChannel, clock, accepted, dropped>>
            /\ resp'.status = StatusMovedPermanently
                 => /\ clock' = clock + 1
                    /\ \/ /\ accepted' = Append(accepted, NextEvent(c))
                          /\ analyticsChannel' = Append(analyticsChannel, NextEvent(c))
                          /\ dropped' = dropped
                       \/ /\ dropped' = Append(dropped, NextEvent(c))
                          /\ UNCHANGED <<accepted, analyticsChannel>>]_vars

\* the click increments a committed flush f applies to short code c: one per
\* event of c whose UPDATE succeeded
ClickIncrements(f, c) ==
  IF f.tx # "ok" THEN 0
  ELSE Cardinality({i \in 1 .. Len(f.events) : f.events[i].code = c /\ f.fails[i] # "upd"})

\* C17: a step of shorten, resolve, stats or list (any step that is not a
\* flush) leaves the click counter of every row as it is, and a row it adds
\* starts at 0; a flush changes the counters only when it commits, and then it
\* adds to each row one per applied event of the row's short code.
C17_OnlyFlushChangesClicks ==
  [][/\ Len(urls') >= Len(urls)
     /\ ~FlushStep
          => /\ \A i \in 1 .. Len(urls) : urls'[i].clicks = urls[i].clicks
             /\ \A i \in (Len(urls) + 1) .. Len(urls') : urls'[i].clicks = 0
     /\ FlushStep
          => /\ Len(urls') = Len(urls)
             /\ \A i \in 1 .. Len(urls) :
                  urls'[i].clicks =
                    urls[i].clicks + ClickIncrements(LastFlush, urls[i].short_code)]_vars

\* a committed flush has counted a click of a6, a shorten request has added a
\* row, and a stats request has reported the counter and left it as it was
C17_Witness ==
  /\ \E i \in 1 .. Len(flushes) : flushes[i].tx = "ok" /\ ClickIncrements(flushes[i], "a6") > 0
  /\ Clicks(urls, "a6") > 0
  /\ resp.op = "stats" /\ resp.status = StatusOK /\ resp.clicks = Clicks(urls, "a6")
  /\ Len(urls) > Len(SeededURLs)

(***************************************************************************)
(* Responses and the analytics pipeline.  What the pipeline can change is  *)
(* the queue, the batch, the click counters and the analytics rows; a      *)
(* state with all of that reset is the service as it would be had no       *)
(* analytics event ever been recorded.                                     *)
(***************************************************************************)
\* a row, a store and a cache without their click counters
NoClicks(row) == [row EXCEPT !.clicks = 0]

StoreNoClicks(u) == [i \in 1 .. Len(u) |-> NoClicks(u[i])]

CacheNoClicks(ch) ==
  [c \in DOMAIN ch |-> IF ch[c].kind = "rec" THEN Entry(NoClicks(ch[c].row)) ELSE ch[c]]

\* what the client of a redirect sees: the status and the long URL
Visible(r) == [status |-> r.status, body |-> r.body]

\* the responses a redirect of c can get on cache ch and store u with the
\* event queue q
RedirectResponses(ch, u, q, c) ==
  {Visible(RedirectResponse(c, g, RecordAnalytics(q, closed, NextEvent(c)).outcome)) :
     g \in GetResults(ch, u, c)}

\* the responses a stats request for c can get, without the click data
StatsResponses(ch, u, a, c) ==
  UNION {{Visible(StatsResponse(u, a, c, g, kq, aq)) :
            kq \in StoreOutcomes, aq \in StoreOutcomes} : g \in GetResults(ch, u, c)}

\* the outcomes a shorten request for l can get, without the click data
ShortenOutcomes(ch, u, l) ==
  {[err |-> r.err, row |-> NoClicks(r.row), urls |-> StoreNoClicks(r.urls)] :
     r \in ShortenResults(u, ch, l)}

\* C18: in every state the pipeline can reach (events accepted, dropped,
\* skipped inside a flush, lost in a failed commit) the responses that
\* resolve, stats and shorten can give, click data apart, are those they give
\* when no analytics event was ever recorded; and no step of the pipeline
\* changes the cache, a response already given, or a row other than in its
\* click counter.
C18_PipelineDoesNotChangeResponses ==
  /\ [](/\ \A c \in RecCodes :
             /\ RedirectResponses(cache, urls, analyticsChannel, c)
                  = RedirectResponses(CacheNoClicks(cache), StoreNoClicks(urls), <<>>, c)
             /\ StatsResponses(cache, urls, analytics, c)
                  = StatsResponses(CacheNoClicks(cache), StoreNoClicks(urls), <<>>, c)
        /\ \A l \in ValidURLs :
             ShortenOutcomes(cache, urls, l)
               = ShortenOutcomes(CacheNoClicks(cache), StoreNoClicks(urls), l))
  /\ [][/\ StoreNoClicks(urls') = StoreNoClicks(urls)
        /\ cache' = cache
        /\ resp' = resp]_vars

\* one event was dropped, one was skipped inside a committed flush and one
\* flush lost its events in a failed transaction
C18_Witness ==
  /\ dropped # <<>>
  /\ \E i \in 1 .. Len(flushes) :
       flushes[i].tx = "ok" /\ \E j \in 1 .. Len(flushes[i].fails) : flushes[i].fails[j] # "ok"
  /\ \E i \in 1 .. Len(flushes) : flushes[i].tx # "ok" /\ flushes[i].events # <<>>

\* the row a successful shorten of l appends when the response names `code`
AddedRow(code, l) ==
  [id |-> Len(urls) + 1, short_code |-> code, long_url |-> l, clicks |-> 0,
   created_at |-> Len(urls) + 1]

\* a shorten request for l, a long URL without a row, that succeeded
ShortenedNew(l) ==
  shortenHandler(l) /\ RowsByLongURL(urls, l) = {} /\ resp'.status = StatusOK

\* C19 as stated: a successful shorten of a long URL without a row inserts one
\* new row (fresh code, the URL, clicks 0) and puts it in the cache under its
\* code, and a resolve of the code returns the URL.
C19_ShortenThenResolve ==
  [][\A l \in ValidURLs :
       ShortenedNew(l)
         => /\ RowsByCode(urls, resp'.body) = {}
            /\ urls' = Append(urls, AddedRow(resp'.body, l))
            /\ cache'[resp'.body] = Entry(AddedRow(resp'.body, l))
            /\ \A g \in GetResults(cache', urls', resp'.body) :
                 g.err = "none" => g.row.long_url = l]_vars

\* C19: a successful shorten of a long URL without a row inserts exactly one
\* new row (fresh code, the URL, clicks 0); the record is in the cache under
\* its code afterwards when the cache Set succeeded, and else the cache has no
\* entry for the code; either way a resolve of the code that succeeds returns
\* the URL, and it succeeds when its cache and store calls do.
C19_ShortenInsertsAndResolves ==
  /\ [][\A l \in ValidURLs :
          ShortenedNew(l)
            => /\ RowsByCode(urls, resp'.body) = {}
               /\ urls' = Append(urls, AddedRow(resp'.body, l))
               /\ cache'[resp'.body] \in {NoEntry, Entry(AddedRow(resp'.body, l))}
               /\ \A c \in ReqCodes \ {resp'.body} : cache'[c] = cache[c]
               /\ \A g \in GetResults(cache', urls', resp'.body) :
                    g.err = "none" => g.row.long_url = l
               /\ GetURL(cache', urls', resp'.body, "ok", "ok", "ok").err = "none"]_vars
  /\ [](\A l \in ValidURLs, draws \in DrawSeqs :
          LET r == ShortenURL(urls, cache, l, "ok", draws, 0, "err", "ok", "ok")
          IN (RowsByLongURL(urls, l) = {} /\ r.err = "none")
               => /\ r.urls = Append(urls, AddedRow(r.row.short_code, l))
                  /\ r.cache[r.row.short_code] = Entry(AddedRow(r.row.short_code, l)))

\* the first shorten request succeeded, its record is cached under its code,
\* and a redirect of that code has returned the long URL
C19_Witness ==
  /\ nshorten = 1 /\ Len(urls) = 1
  /\ cache[urls[1].short_code] = Entry(urls[1])
  /\ resp.op = "redirect" /\ resp.arg = urls[1].short_code
  /\ resp.status = StatusMovedPermanently /\ resp.body = urls[1].long_url

\* the request strings that lack a scheme or lack a host
InvalidURLs == {l \in InputURLs : ParseURL(l).scheme = "" \/ ParseURL(l).host = ""}

\* C20: ShortenURL of a string that lacks a scheme or a host returns the
\* invalid-URL error whatever the store and the cache would answer, having
\* made no store call and leaving the store and the cache as they are; and
\* the shorten request answers 400 with that error and changes neither the
\* store, the cache nor the analytics queue.
C20_InvalidURLRejected ==
  /\ [](\A l \in InvalidURLs, lq \in StoreOutcomes, draws \in DrawSeqs,
           iq \in StoreOutcomes, cs \in CacheOutcomes :
          LET r == ShortenURL(urls, cache, l, lq, draws, 0, "err", iq, cs)
          IN /\ r.err = "invalid URL format"
             /\ ~r.storeTouched
             /\ r.urls = urls /\ r.cache = cache)
  /\ [][\A l \in InvalidURLs \ {""} :
          shortenHandler(l)
            => /\ resp'.status = StatusBadRequest
               /\ resp'.body = "invalid URL format"
               /\ UNCHANGED <<urls, analytics, cache, analyticsChannel, batch>>]_vars

\* a string without a scheme was rejected while the store and the cache held
\* a record
C20_Witness ==
  /\ resp.op = "shorten" /\ resp.arg = "//x"
  /\ resp.status = StatusBadRequest /\ resp.body = "invalid URL format"
  /\ urls # <<>>
  /\ \E c \in ReqCodes : cache[c] # NoEntry

(***************************************************************************)
(* Properties of the allocator.                                            *)
(***************************************************************************)
\* every candidate of the draws is the short code of a stored row
AllInUse(u, draws) == \A i \in 1 .. NumDraws : RowsByCode(u, draws[i]) # {}

AllocationFailed == resp.op = "shorten" /\ resp.body = "exhausted"

\* C21: generateUniqueShortCode returns after at most NumDraws existence checks
\* (MaxAttempts per length, for the lengths 6, 7, 8); when every candidate is
\* found in use it returns the allocation failure after exactly NumDraws checks,
\* and ShortenURL returns that failure with the store and the cache as they were,
\* after one allocation.
C21_AllocationBounded ==
  /\ [](\A draws \in DrawSeqs, failAt \in 0 .. NumDraws, ferr \in StoreOutcomes \ {"ok"} :
          LET g == generateUniqueShortCode(urls, draws, failAt, ferr)
          IN /\ g.checks <= NumDraws
             /\ (failAt = 0 /\ AllInUse(urls, draws)) =>
                  /\ g = [code |-> NoCode, err |-> "exhausted", checks |-> NumDraws]
                  /\ \A l \in ValidURLs, lq \in StoreOutcomes \ {"timeout"},
                        iq \in StoreOutcomes, cs \in CacheOutcomes :
                       ~LookupFound(urls, l, lq) =>
                         LET r == ShortenURL(urls, cache, l, lq, draws, failAt, ferr, iq, cs)
                         IN r.err = "exhausted" /\ r.urls = urls /\ r.cache = cache)
  /\ [][\A l \in InputURLs :
          (shortenHandler(l) /\ AllocationFailed') =>
            urls' = urls /\ cache' = cache /\ nshorten' = nshorten + 1]_vars

\* C21 witness: a shorten request failed because every candidate was in use
C21_Witness == AllocationFailed /\ resp.status = StatusBadRequest /\ Len(urls) >= 3

(***************************************************************************)
(* Properties of the error statuses.                                       *)
(***************************************************************************)
\* GetURL(c) with the outcomes cg, dq, cs in the current state
GetWith(c, cg, dq, cs) == GetURL(cache, urls, c, cg, dq, cs)

\* the cache Get, or the store query made after a miss, met the deadline
GetOrQueryTimedOut(c, cg, dq) == cg = "timeout" \/ (~CacheHit(cache, c, cg) /\ dq = "timeout")

\* GetURL made its cache Set, and the Set met the deadline
SetTimedOut(c, cg, dq, cs) ==
  /\ ~CacheHit(cache, c, cg) /\ cg # "timeout" /\ dq = "ok" /\ RowsByCode(urls, c) # {}
  /\ cs = "timeout"

\* the status of a redirect of c in the current state, GetURL having returned g
RedirectStatus(c, g) ==
  RedirectResponse(c, g, RecordAnalytics(analyticsChannel, closed, NextEvent(c)).outcome).status

StatsStatus(c, g, kq, aq) == StatsResponse(urls, analytics, c, g, kq, aq).status

\* one of the two queries statsHandler makes itself met the deadline
StatsQueryTimedOut(c, g, kq, aq) ==
  /\ g.err = "none"
  /\ \/ kq = "timeout"
     \/ kq = "ok" /\ RowsByCode(urls, c) # {} /\ aq = "timeout"

\* a store call of ShortenURL(l) met the deadline: the lookup, an existence
\* check of the allocation g, or the INSERT
ShortenStoreTimedOut(l, lq, g, iq) ==
  \/ lq = "timeout"
  \/ ~LookupFound(urls, l, lq) /\ (g.err = "timeout" \/ (g.err = "none" /\ iq = "timeout"))

\* ShortenURL(l) made its cache Set, and the Set met the deadline
ShortenSetTimedOut(l, lq, g, iq, cs) ==
  /\ LookupFound(urls, l, lq) \/ (g.err = "none" /\ InsertOK(urls, g.code, iq))
  /\ cs = "timeout"

ShortenStatus(l, lq, g, iq, cs) ==
  ShortenResponse(l, ShortenWith(urls, cache, l, lq, g, iq, cs)).status

\* C22 as stated: whichever store or cache call of resolve, stats or shorten
\* meets the deadline, the answer is 408.
C22_TimeoutAlways408 ==
  /\ \A c \in ServiceCodes, cg \in CacheOutcomes, dq \in StoreOutcomes, cs \in CacheOutcomes :
       LET g == GetWith(c, cg, dq, cs)
           inGet == GetOrQueryTimedOut(c, cg, dq) \/ SetTimedOut(c, cg, dq, cs)
       IN /\ inGet => RedirectStatus(c, g) = StatusRequestTimeout
          /\ \A kq \in StoreOutcomes, aq \in StoreOutcomes :
               (inGet \/ StatsQueryTimedOut(c, g, kq, aq))
                 => StatsStatus(c, g, kq, aq) = StatusRequestTimeout
  /\ \A lq \in StoreOutcomes :
       \A g \in GenerateResults(urls, lq = "timeout") :
         \A l \in ValidURLs, iq \in StoreOutcomes, cs \in CacheOutcomes :
           (ShortenStoreTimedOut(l, lq, g, iq) \/ ShortenSetTimedOut(l, lq, g, iq, cs))
             => ShortenStatus(l, lq, g, iq, cs) = StatusRequestTimeout

\* C22: resolve, stats and shorten answer 408, and not 400, 404 or 500, exactly
\* when a store call or the cache Get of the request met the deadline, or, in
\* stats, the cache Set of GetURL did (the next store query then fails on the
\* deadline); a cache Set that meets the deadline as the last call of resolve
\* or shorten is ignored: the answer is the 301 or the 200.
C22_StoreTimeoutIs408 ==
  /\ \A c \in ServiceCodes, cg \in CacheOutcomes, dq \in StoreOutcomes, cs \in CacheOutcomes :
       LET g == GetWith(c, cg, dq, cs)
           inGet == GetOrQueryTimedOut(c, cg, dq) \/ SetTimedOut(c, cg, dq, cs)
       IN /\ GetOrQueryTimedOut(c, cg, dq) <=> RedirectStatus(c, g) = StatusRequestTimeout
          /\ SetTimedOut(c, cg, dq, cs) => RedirectStatus(c, g) = StatusMovedPermanently
          /\ \A kq \in StoreOutcomes, aq \in StoreOutcomes :
               (inGet \/ StatsQueryTimedOut(c, g, kq, aq))
                 <=> StatsStatus(c, g, kq, aq) = StatusRequestTimeout
  /\ \A lq \in StoreOutcomes :
       \A g \in GenerateResults(urls, lq = "timeout") :
         \A l \in ValidURLs, iq \in StoreOutcomes, cs \in CacheOutcomes :
           /\ ShortenStoreTimedOut(l, lq, g, iq)
                <=> ShortenStatus(l, lq, g, iq, cs) = StatusRequestTimeout
           /\ (ShortenSetTimedOut(l, lq, g, iq, cs) /\ ~ShortenStoreTimedOut(l, lq, g, iq))
                => ShortenStatus(l, lq, g, iq, cs) = StatusOK
  /\ StatusRequestTimeout \notin {StatusBadRequest, StatusNotFound, StatusInternalServerError}

\* C22 witness: a stats request was answered 408 after its GetURL had read the
\* record from the store and refilled the cache
C22_Witness ==
  /\ resp.op = "stats" /\ resp.status = StatusRequestTimeout
  /\ cache[resp.arg] # NoEntry

\* the store query of GetURL(c) was made and failed, not on the deadline
GetQueryFailed(c, cg, dq) == ~CacheHit(cache, c, cg) /\ cg # "timeout" /\ dq = "err"

\* a store call of ShortenURL(l) failed, not on the deadline: the lookup, an
\* existence check of the allocation g, or the INSERT
ShortenStoreFailed(l, lq, g, iq) ==
  \/ lq = "err"
  \/ lq = "ok" /\ ~LookupFound(urls, l, lq) /\ (g.err = "err" \/ (g.err = "none" /\ iq = "err"))

\* the texts of store errors that a response body can carry
InternalTexts == {"err"}

\* C23: a store call of resolve, stats or shorten that fails with an error
\* that is neither the deadline nor a missing row is answered with 500 and a
\* body without the error's text, never with 400 or 404.
C23_StoreFailureIsInternal ==
  /\ \A c \in ServiceCodes, cg \in CacheOutcomes, dq \in StoreOutcomes, cs \in CacheOutcomes :
       LET g == GetWith(c, cg, dq, cs)
       IN /\ GetQueryFailed(c, cg, dq) => RedirectStatus(c, g) = StatusInternalServerError
          /\ \A kq \in StoreOutcomes, aq \in StoreOutcomes :
               (\/ GetQueryFailed(c, cg, dq)
                \/ g.err = "none" /\ g.ctx = "live" /\ (kq = "err" \/ (kq = "ok" /\ aq = "err")))
                 => StatsStatus(c, g, kq, aq) = StatusInternalServerError
  /\ \A lq \in StoreOutcomes :
       \A g \in GenerateResults(urls, lq = "timeout") :
         \A l \in ValidURLs, iq \in StoreOutcomes, cs \in CacheOutcomes :
           ShortenStoreFailed(l, lq, g, iq)
             => LET r == ShortenResponse(l, ShortenWith(urls, cache, l, lq, g, iq, cs))
                IN r.status = StatusInternalServerError /\ r.body \notin InternalTexts

\* the number of characters of a short code
CodeLen(c) == CHOOSE l \in Lengths : c \in CodesOfLen(l)

\* C24: generateUniqueShortCode returns the first candidate whose existence
\* check found it unused: with j candidates rejected before it, the code is the
\* (j+1)-th draw and has length StartLength + j \div MaxAttempts, so a code of
\* length 7 or 8 is returned only after MaxAttempts or 2 * MaxAttempts
\* collisions in a row; and a shorten request stores such a code only when a
\* code of each smaller length is in use.
C24_FirstUnusedCandidate ==
  /\ [](\A draws \in DrawSeqs, failAt \in 0 .. NumDraws, ferr \in StoreOutcomes \ {"ok"} :
          LET g == generateUniqueShortCode(urls, draws, failAt, ferr)
              j == g.checks - 1
          IN g.err = "none" =>
               /\ j \in 0 .. NumDraws - 1
               /\ g.code = draws[j + 1]
               /\ RowsByCode(urls, g.code) = {}
               /\ \A i \in 1 .. j : RowsByCode(urls, draws[i]) # {}
               /\ CodeLen(g.code) = StartLength + (j \div MaxAttempts)
               /\ \A k \in 1 .. ExtraLengths :
                    CodeLen(g.code) = StartLength + k => j >= k * MaxAttempts)
  /\ [][\A l \in InputURLs :
          (shortenHandler(l) /\ Len(urls') > Len(urls)) =>
            LET code == urls'[Len(urls')].short_code
            IN /\ RowsByCode(urls, code) = {}
               /\ \A len \in StartLength .. CodeLen(code) - 1 :
                    \E c \in CodesOfLen(len) : RowsByCode(urls, c) # {}]_vars

\* C24 witness: a shorten request was given a code of length 7 or more, for a
\* long URL that had none
C24_Witness ==
  /\ resp.op = "shorten" /\ resp.status = StatusOK
  /\ urls # <<>>
  /\ urls[Len(urls)].short_code = resp.body
  /\ urls[Len(urls)].long_url # StoredURL(resp.body)
  /\ CodeLen(resp.body) > StartLength

FlushedBefore == Len(FlushedEvents)

\* C26: the batch of a flush holds the next events of the queue in the order
\* they were enqueued; the statements of the flush are issued event by event in
\* that order, the UPDATE of an event before its INSERT; and a committed flush
\* leaves the store as these statements, executed in this order, leave it.
C26_BatchInEnqueueOrder ==
  [][FlushStep =>
       LET f == LastFlush
           stmts == IssuedStatements(f.events, f.fails)
       IN /\ \A i \in 1 .. Len(f.events) : f.events[i] = accepted[FlushedBefore + i]
          /\ \A i \in 1 .. Len(f.events) :
               \E p \in 1 .. Len(stmts) : stmts[p].kind = "upd" /\ stmts[p].idx = i
          /\ \A p, q \in 1 .. Len(stmts) :
               p < q => \/ stmts[p].idx < stmts[q].idx
                        \/ /\ stmts[p].idx = stmts[q].idx
                           /\ stmts[p].kind = "upd" /\ stmts[q].kind = "ins"
          /\ f.tx = "ok" =>
               [urls |-> urls', analytics |-> analytics']
                 = ExecStatements([urls |-> urls, analytics |-> analytics], f.events, stmts)]_vars

\* C26 witness: a committed flush of two or more events of different short
\* codes, whose rows were added in the order of the events
C26_Witness ==
  \E n \in 1 .. Len(flushes) :
    /\ flushes[n].tx = "ok"
    /\ Len(flushes[n].events) >= 2
    /\ flushes[n].events[1].code # flushes[n].events[2].code
    /\ \A i \in 1 .. Len(flushes[n].events) : flushes[n].fails[i] = "ok"
    /\ Len(analytics) >= 2
    /\ analytics[Len(analytics)].ts > analytics[Len(analytics) - 1].ts

(***************************************************************************)
(* Properties of the cache with values that do not decode.                 *)
(***************************************************************************)
Corrupt(c) == cache[c] = BadEntry

\* the errors GetURL returns: the store's, and the missing row
GetErrors == {"none", "notfound", "err", "timeout"}

\* C27 as stated: GetURL for a code whose cache value does not decode returns
\* the store's record and leaves that record in the cache in place of the value.
C27_CorruptEntryReplaced ==
  \A c \in SeededCodes, cs \in CacheOutcomes :
    Corrupt(c) =>
      LET g == GetURL(cache, urls, c, "ok", "ok", cs)
      IN g.err = "none" /\ g.row = StoreRow(c) /\ g.cache[c] = Entry(StoreRow(c))

\* C27: GetURL for a code whose cache value does not decode goes to the store
\* as on a miss and never returns the decoding error: it returns the store's
\* record when the query finds it, and then replaces the value with the record
\* when the cache Set succeeds (a failed Set leaves the value in the cache);
\* a redirect of such a code that answers 301 gives the store's long URL.
C27_CorruptEntryIsMiss ==
  /\ [](\A c \in RecCodes :
          Corrupt(c) =>
            \A dq \in StoreOutcomes, cs \in CacheOutcomes :
              LET g == GetURL(cache, urls, c, "ok", dq, cs)
                  miss == GetURL([cache EXCEPT ![c] = NoEntry], urls, c, "ok", dq, cs)
              IN /\ g.storeRead
                 /\ g.err \in GetErrors
                 /\ g.err = miss.err /\ g.row = miss.row
                 /\ (dq = "ok" /\ c \in SeededCodes) =>
                      /\ g.err = "none" /\ g.row = StoreRow(c)
                      /\ g.cache = [cache EXCEPT ![c] = IF cs = "ok" THEN Entry(StoreRow(c))
                                                         ELSE BadEntry])
  /\ [][\A c \in RecCodes :
          (redirectHandler(c) /\ Corrupt(c)) =>
            /\ resp'.status \in {StatusMovedPermanently, StatusNotFound, StatusRequestTimeout}
            /\ resp'.status = StatusMovedPermanently =>
                 /\ resp'.body = StoreRow(c).long_url
                 /\ cache'[c] \in {Entry(StoreRow(c)), BadEntry}]_vars

\* C27 witness: the first redirect found a value that does not decode under
\* a6, answered with the store's long URL and left the store's record in the cache
C27_Witness ==
  /\ clock = 1 /\ resp.op = "redirect" /\ resp.arg = "a6"
  /\ resp.status = StatusMovedPermanently /\ resp.body = StoreRow("a6").long_url
  /\ cache["a6"] = Entry(StoreRow("a6"))
  /\ Corrupt("b6")

(***************************************************************************)
(* Properties of stats.                                                    *)
(***************************************************************************)
\* the cache holds a record of c whose click counter is behind the store's
StaleClicks(c) == cache[c].kind = "rec" /\ cache[c].row.clicks < Clicks(urls, c)

\* C28: a stats request for c that answers 200 reports the click counter the
\* store holds for c at that moment, also when the cache holds a record of c
\* with an older counter; the request enqueues no analytics event and leaves
\* the store as it was.
C28_StatsReadsStoreClicks ==
  [][\A c \in ServiceCodes :
       statsHandler(c) =>
         /\ resp'.status = StatusOK =>
              /\ resp'.clicks = Clicks(urls, c)
              /\ resp'.nrows = GetAnalytics(analytics, c)
         /\ UNCHANGED <<urls, analytics, analyticsChannel, batch, clock, accepted, dropped>>]_vars

\* C28 witness: a stats request reported a click that the store has counted
\* while the cache still holds the record without it
C28_Witness ==
  /\ resp.op = "stats" /\ resp.status = StatusOK
  /\ StaleClicks(resp.arg)
  /\ resp.clicks = Clicks(urls, resp.arg)
  /\ resp.clicks > 0

(***************************************************************************)
(* Properties of the insert race.                                          *)
(***************************************************************************)
\* what shortenHandler answers when ShortenURL returns the error err
FailureResponse(l, err) ==
  ShortenResponse(l, [err |-> err, row |-> NoRow, urls |-> urls, cache |-> cache,
                      storeTouched |-> TRUE])

\* the call of goroutine p lost the race for its short code: its INSERT was
\* refused by the UNIQUE constraint
LostRace(p) == sh[p].pc = "done" /\ sh[p].err = "duplicate key"

\* C29: a ShortenURL call whose INSERT is refused because a concurrent call
\* inserted the same short code ends with an outcome that differs from the
\* outcome of any other failed INSERT.
C29_DuplicateSurfacedDistinctly ==
  \A p \in Procs :
    LostRace(p) =>
      FailureResponse(sh[p].url, sh[p].err).status # FailureResponse(sh[p].url, "err").status

(***************************************************************************)
(* Properties of the rows of urls.                                         *)
(***************************************************************************)
\* what of a row never changes
Identity(row) ==
  [id |-> row.id, short_code |-> row.short_code, long_url |-> row.long_url,
   created_at |-> row.created_at]

\* C30: no step removes a row of urls or changes the id, short code, long URL
\* or creation time of a row: rows are only added (by shorten) and only their
\* click counters change (by a flush), so a short code never passes to another
\* long URL.
C30_RowsOnlyAdded ==
  [][/\ Len(urls') >= Len(urls)
     /\ \A i \in 1 .. Len(urls) : Identity(urls'[i]) = Identity(urls[i])
     /\ \A c \in AllCodes :
          \A i \in RowsByCode(urls, c), j \in RowsByCode(urls', c) :
            urls'[j].long_url = urls[i].long_url]_vars

\* C30 witness: a shorten request has added a row and a flush has counted a
\* click on an older row, which is otherwise as it was stored
C30_Witness ==
  /\ Len(urls) > Len(SeededURLs)
  /\ \E i \in 1 .. Len(SeededURLs) :
       urls[i].clicks > 0 /\ Identity(urls[i]) = Identity(SeededURLs[i])

(***************************************************************************)
(* Properties of the worker across a run, Close included.                  *)
(***************************************************************************)
\* C31 as claimed: every event handed to processBatch, before or after Close was
\* called, was accepted by RecordAnalytics before, and no accepted event is handed
\* to processBatch twice.
C31_NoPhantomNoDuplicate ==
  /\ \A i \in 1 .. Len(FlushedEvents) : FlushedEvents[i] \in Range(accepted)
  /\ \A i, j \in 1 .. Len(FlushedEvents) : FlushedEvents[i] = FlushedEvents[j] => i = j

\* C32: for every short code the store has a row for, the committed analytics rows
\* of the code are at most its clicks, its clicks are at most the events
\* RecordAnalytics accepted for it, and no step lowers its clicks.
C32_ClicksBetweenRowsAndAccepted ==
  /\ [](\A c \in AllCodes :
          RowsByCode(urls, c) # {} =>
            /\ RowCount(c) <= Clicks(urls, c)
            /\ Clicks(urls, c) <= AcceptedCount(c))
  /\ [][\A c \in AllCodes :
          RowsByCode(urls, c) # {} => Clicks(urls', c) >= Clicks(urls, c)]_vars

\* C32 witness: for one short code a committed flush left fewer rows than clicks,
\* and fewer clicks than accepted events
C32_Witness ==
  \E c \in SeededCodes :
    /\ 1 <= RowCount(c)
    /\ RowCount(c) < Clicks(urls, c)
    /\ Clicks(urls, c) < AcceptedCount(c)

(***************************************************************************)
(* Properties of ShortenURL's lookup by long URL.                          *)
(***************************************************************************)
\* C33 as claimed: when the lookup by long URL fails with a store error,
\* ShortenURL returns an error and inserts nothing, whatever its later calls
\* would answer; a row is inserted only after a lookup that reported no row.
C33_FailedLookupInsertsNothing ==
  \A l \in ValidURLs, lq \in StoreOutcomes :
    \* the query itself failed: with lq = "ok" it reports the row or no row
    lq # "ok" =>
      \A draws \in DrawSeqs, failAt \in 0 .. NumDraws, ferr \in StoreOutcomes \ {"ok"},
         iq \in StoreOutcomes, cs \in CacheOutcomes :
        LET r == ShortenURL(urls, cache, l, lq, draws, failAt, ferr, iq, cs)
        IN /\ r.err # "none"
           /\ r.urls = urls

\* Close has returned
CloseReturned == closePc = "done"

\* C34 as claimed: once Close has returned, the worker receives nothing more from
\* the queue and runs no further flush against the store.
C34_WorkerStoppedAfterClose ==
  [][CloseReturned => ~WorkerReceive /\ ~FlushStep]_vars

(***************************************************************************)
(* Properties of the cache against the store.                              *)
(***************************************************************************)
\* the cache entry under c is a record of the store's row for c: the store has
\* the code, and the record agrees with the row in everything but the clicks
EntryMatchesStore(c) ==
  /\ RowsByCode(urls, c) # {}
  /\ cache[c].row.short_code = c
  /\ Identity(cache[c].row) = Identity(FirstRow(urls, RowsByCode(urls, c)))

\* C35: every decodable cache entry under a key c is a record with short code c
\* whose id, long URL and creation time are those of the store's row for c: the
\* cache holds no code the store lacks and maps no code to another long URL.
C35_CacheAgreesWithStore ==
  \A c \in ReqCodes : cache[c].kind = "rec" => EntryMatchesStore(c)

\* C35 witness: two codes are cached, one for a row inserted in this run, and one
\* of the records is behind the store's click counter
C35_Witness ==
  /\ \E c \in AllCodes \ SeededCodes : cache[c].kind = "rec"
  /\ \E c \in SeededCodes : StaleClicks(c)

(***************************************************************************)
(* GetURL against a lookup that reads the store directly.                  *)
(***************************************************************************)
\* the outcome of a lookup that matters to its caller: found or not, and the
\* long URL when found
Lookup(g) == [err |-> g.err, long_url |-> g.row.long_url]

C37_OneFlushAtATime ==
  /\ [](/\ Cardinality(WorkersStarted) = 1
        /\ Cardinality({w \in WorkersStarted : InTransaction(w)}) <= 1
        /\ Cardinality({w \in WorkersStarted : InProcessBatch(w)}) <= 1)
  /\ [][(\E w \in WorkersStarted : InProcessBatch(w)) =>
          /\ Len(analyticsChannel') >= Len(analyticsChannel)
          /\ \A v \in WorkersStarted : InProcessBatch(v)' => InProcessBatch(v)]_vars

\* C37 witness: a transaction is open after an earlier flush has returned,
\* while events that arrived meanwhile wait in the queue
C37_Witness ==
  /\ \E w \in WorkersStarted : InTransaction(w)
  /\ flushes # <<>>
  /\ analyticsChannel # <<>>

\* the analytics row a committed event leaves
RowOf(e) == [short_code |-> e.code, ts |-> e.ts]

\* C38: events are committed in the order RecordAnalytics accepted them, across
\* flushes as well as within one: if e1 was accepted before e2 and both have an
\* analytics row, e1's row was inserted before e2's, and e1 was handed to the
\* same call of processBatch as e2 or to an earlier one.
C38_GlobalFifo ==
  \A p1, p2 \in 1 .. Len(accepted) :
    p1 < p2 =>
      /\ \A i, j \in 1 .. Len(analytics) :
           (analytics[i] = RowOf(accepted[p1]) /\ analytics[j] = RowOf(accepted[p2]))
             => i < j
      /\ \A n1, n2 \in 1 .. Len(flushes) :
           (/\ accepted[p1] \in Range(flushes[n1].events)
            /\ accepted[p2] \in Range(flushes[n2].events)) => n1 <= n2

\* C38 witness: two flushes have committed, each has left a row, and a flush
\* held two events
C38_Witness ==
  /\ \E n1, n2 \in 1 .. Len(flushes) :
       /\ n1 < n2
       /\ flushes[n1].tx = "ok" /\ flushes[n2].tx = "ok"
       /\ \E e \in Range(flushes[n1].events) : RowOf(e) \in Range(analytics)
       /\ \E e \in Range(flushes[n2].events) : RowOf(e) \in Range(analytics)
       /\ Len(flushes[n2].events) >= 2
  /\ Len(analytics) >= 3

====
